---- MODULE Spec2Model ----
(***************************************************************************)
(* Position & risk lifecycle manager of the trading bot                    *)
(* (TradingEngineService) together with the server glue that drives it     *)
(* (handleBinanceMessage and the /api endpoints).                          *)
(*                                                                         *)
(* The repository carries two revisions of TradingEngineService that the   *)
(* properties below refer to: src/backend/TradingEngineService.js and      *)
(* src/unnamed/part_001 (the revision with resolved trade parameters).     *)
(* The variable rev fixes, for a whole behaviour, which of the two runs.   *)
(*                                                                         *)
(* Numbers are fixed-point integers: prices count 1/PriceScale, quantities *)
(* count 1/QtyScale, money counts 1/(PriceScale*QtyScale), percentages and *)
(* ratios of the settings count 1/PctScale.  A JavaScript division is the  *)
(* integer quotient at that resolution.                                    *)
(*                                                                         *)
(* An async method runs synchronously up to its first await on the         *)
(* exchange (apiClient.createOrder); the suspended remainder is an element *)
(* of inflight and resumes in a later step with the exchange's answer.     *)
(* saveData and broadcast (persistence, notification) change none of the   *)
(* modelled state and are left out.                                        *)
(***************************************************************************)
EXTENDS Integers, Sequences, FiniteSets, TLC

\* ------------------------------------------------------------------ bounds
Symbols == {"AAA", "BBB"}
\* openPosition is not entered once tradeIdCounter has passed MaxTradeId
MaxTradeId == 2
\* Date.now() advances in steps of one hour, at most MaxClock times
MaxClock == 1
\* /api/clear-data is called with at most MaxSuspended calls suspended on the
\* exchange
MaxSuspended == 1
\* the candle stream delivers at most MaxCandles closed candles per key
MaxCandles == 3

\* ------------------------------------------------------- number resolution
PriceScale == 100
QtyScale == 10
PctScale == 100
MsPerHour == 3600000
\* the candles handleNewKline keeps per key, and those its first fetch and
\* the fetches of runFullAnalysis ask for
WindowCapacity == 201
HistoryLimit == 200
AnalysisLimit == 201
\* quantities of formatQuantity on their own are held in 10^-9
QuantityUnit == 1000000000

Undefined == "undefined"
\* a Map without entries
EmptyMap == [k \in {} |-> 0]

Revisions == {"backend", "part_001"}
\* REAL_PAPER is left out: the engine only tests for REAL_LIVE, so it runs
\* exactly as VIRTUAL
Modes == {"VIRTUAL", "REAL_LIVE"}

\* a / b of two JavaScript numbers, b # 0 (no modelled input divides by 0)
Div(a, b) == IF b = 0 THEN 0 ELSE IF a >= 0 THEN a \div b ELSE -((-a) \div b)
\* x * (pct / 100) with pct a setting in 1/PctScale of a percent
PctOf(x, pct) == Div(x * pct, 100 * PctScale)
\* x * ratio with ratio a setting in 1/PctScale
Times(x, ratio) == Div(x * ratio, PctScale)
Max(a, b) == IF a >= b THEN a ELSE b

\* ---------------------------------------------------------------- settings
\* loadData's settings with the .env fallbacks, but for three values a .env
\* sets: INITIAL_VIRTUAL_BALANCE 1000, MAX_OPEN_POSITIONS 2 and
\* LOSS_COOLDOWN_HOURS 1 (fallbacks 10000, 5 and 4)
DefaultSettings ==
    [ INITIAL_VIRTUAL_BALANCE |-> 1000 * PriceScale * QtyScale,
      MAX_OPEN_POSITIONS |-> 2,
      POSITION_SIZE_PCT |-> 2 * PctScale,
      RISK_REWARD_RATIO |-> 4 * PctScale,
      STOP_LOSS_PCT |-> 2 * PctScale,
      LOSS_COOLDOWN_HOURS |-> 1,
      USE_ATR_STOP_LOSS |-> TRUE,
      ATR_MULTIPLIER |-> 150,
      USE_DYNAMIC_POSITION_SIZING |-> FALSE,
      STRONG_BUY_POSITION_SIZE_PCT |-> 3 * PctScale,
      USE_DYNAMIC_PROFILE_SELECTOR |-> TRUE,
      ADX_THRESHOLD_RANGE |-> 20,
      ATR_PCT_THRESHOLD_VOLATILE |-> 5 * PctScale,
      USE_MTF_VALIDATION |-> FALSE,
      USE_IGNITION_TRAILING_STOP |-> TRUE,
      IGNITION_TRAILING_STOP_PCT |-> 150,
      USE_PARTIAL_TAKE_PROFIT |-> FALSE,
      USE_AUTO_BREAKEVEN |-> TRUE,
      USE_ADAPTIVE_TRAILING_STOP |-> TRUE,
      USE_RSI_SAFETY_FILTER |-> TRUE,
      RSI_OVERBOUGHT_THRESHOLD |-> 75,
      USE_RSI_MTF_FILTER |-> FALSE,
      RSI_15M_OVERBOUGHT_THRESHOLD |-> 70,
      USE_VOLUME_CONFIRMATION |-> TRUE,
      USE_OBV_VALIDATION |-> TRUE,
      USE_CVD_FILTER |-> FALSE,
      USE_IGNITION_STRATEGY |-> FALSE,
      IGNITION_PRICE_SPIKE_PCT |-> 5 * PctScale,
      IGNITION_VOLUME_MULTIPLE |-> 10,
      HAS_API_KEYS |-> FALSE ]

\* ------------------------------------------------------------------ inputs
\* prices the ticker stream delivers; the stop of every modelled signal is
\* 97.00 and its target is above 110.00
StopTick == 97 * PriceScale
HighTick == 110 * PriceScale
\* slippage of an exchange fill against the signal price
FillSlips == {0, PriceScale}

StrategyOf(score) ==
    IF score = "IGNITION_DETECTED" THEN "IGNITION"
    ELSE IF score = "MOMENTUM_BUY" THEN "MOMENTUM" ELSE "PRECISION"

\* the analysed pairs handed to the engine: only the fields the engine reads
PairsOf(symbols, scores) ==
    { [symbol |-> s, score |-> sc, strategy_type |-> StrategyOf(sc),
       price |-> 100 * PriceScale, atr_15m |-> 2 * PriceScale,
       adx_15m |-> 25, atr_pct_15m |-> 3 * PctScale] :
      s \in symbols, sc \in scores }

\* analysed pairs with chosen indicator values
PairsWith(symbols, scores, atrs, adxs, atrPcts) ==
    { [symbol |-> s, score |-> sc, strategy_type |-> StrategyOf(sc),
       price |-> 100 * PriceScale, atr_15m |-> atr,
       adx_15m |-> adx, atr_pct_15m |-> atrPct] :
      s \in symbols, sc \in scores, atr \in atrs, adx \in adxs, atrPct \in atrPcts }

\* no call of the analyser is under study
NoCall == [call |-> "none"]

VARIABLES
    rev,                  \* which revision of TradingEngineService runs
    settings,             \* botState.settings
    balance,              \* botState.balance
    activePositions,      \* botState.activePositions (array)
    tradeHistory,         \* botState.tradeHistory (array)
    tradeIdCounter,       \* botState.tradeIdCounter
    isRunning,            \* botState.isRunning
    tradingMode,          \* botState.tradingMode
    recentlyLostSymbols,  \* botState.recentlyLostSymbols (Map)
    pendingConfirmation,  \* botState.pendingConfirmation (Map)
    priceCache,           \* botState.priceCache (Map; 0 = no entry)
    apiClient,            \* tradingEngine.apiClient is set
    inflight,             \* openPosition/closePosition calls awaiting createOrder
    clock,                \* hours elapsed; Date.now() = clock * MsPerHour
    analyzer,             \* the call of a pure method under study
    klineData,            \* realtimeAnalyzer.klineData (Map) of the 1m keys
    fetches,              \* handleNewKline calls awaiting their history fetch
    feed,                 \* number of the last candle the stream delivered, per key
    lastEvent             \* the handler or continuation that ran last

vars == <<rev, settings, balance, activePositions, tradeHistory, tradeIdCounter,
          isRunning, tradingMode, recentlyLostSymbols, pendingConfirmation,
          priceCache, apiClient, inflight, clock, analyzer, klineData, fetches,
          feed, lastEvent>>

Now == clock * MsPerHour

\* the part of botState the engine's methods write, as one value
BotState ==
    [ balance |-> balance, activePositions |-> activePositions,
      tradeHistory |-> tradeHistory, tradeIdCounter |-> tradeIdCounter,
      recentlyLostSymbols |-> recentlyLostSymbols,
      pendingConfirmation |-> pendingConfirmation, inflight |-> inflight ]

Store(b) ==
    /\ balance' = b.balance
    /\ activePositions' = b.activePositions
    /\ tradeHistory' = b.tradeHistory
    /\ tradeIdCounter' = b.tradeIdCounter
    /\ recentlyLostSymbols' = b.recentlyLostSymbols
    /\ pendingConfirmation' = b.pendingConfirmation
    /\ inflight' = b.inflight

\* ------------------------------------------------- TradingEngineService
\* _getTradeParameters with a fault: the volatility test comes before the
\* range test
_getTradeParameters_VolatileFirst(pair) ==
    LET manual == [ name |-> "MANUAL",
                    riskRewardRatio |-> settings.RISK_REWARD_RATIO,
                    useAtrSl |-> settings.USE_ATR_STOP_LOSS,
                    atrMultiplier |-> settings.ATR_MULTIPLIER,
                    stopLossPct |-> settings.STOP_LOSS_PCT,
                    usePartialTp |-> settings.USE_PARTIAL_TAKE_PROFIT,
                    useAutoBreakeven |-> settings.USE_AUTO_BREAKEVEN,
                    useAdaptiveTs |-> settings.USE_ADAPTIVE_TRAILING_STOP ]
    IN  IF pair.strategy_type = "IGNITION" THEN [manual EXCEPT !.name = "IGNITION"]
        ELSE IF settings.USE_DYNAMIC_PROFILE_SELECTOR
        THEN IF pair.atr_pct_15m > settings.ATR_PCT_THRESHOLD_VOLATILE
             THEN [manual EXCEPT !.name = "VOLATILITY_HUNTER", !.riskRewardRatio = 300,
                                 !.useAtrSl = TRUE, !.atrMultiplier = 200,
                                 !.usePartialTp = FALSE, !.useAutoBreakeven = TRUE,
                                 !.useAdaptiveTs = TRUE]
             ELSE IF pair.adx_15m < settings.ADX_THRESHOLD_RANGE
             THEN [manual EXCEPT !.name = "SCALPER", !.riskRewardRatio = 75,
                                 !.useAtrSl = FALSE, !.stopLossPct = 200,
                                 !.usePartialTp = FALSE, !.useAutoBreakeven = FALSE,
                                 !.useAdaptiveTs = FALSE]
             ELSE [manual EXCEPT !.name = "SNIPER", !.riskRewardRatio = 500,
                                 !.useAtrSl = TRUE, !.atrMultiplier = 150,
                                 !.usePartialTp = TRUE, !.useAutoBreakeven = TRUE,
                                 !.useAdaptiveTs = TRUE]
        ELSE manual

\* part_001 only: the risk profile of a signal
_getTradeParameters(pair) ==
    LET manual == [ name |-> "MANUAL",
                    riskRewardRatio |-> settings.RISK_REWARD_RATIO,
                    useAtrSl |-> settings.USE_ATR_STOP_LOSS,
                    atrMultiplier |-> settings.ATR_MULTIPLIER,
                    stopLossPct |-> settings.STOP_LOSS_PCT,
                    usePartialTp |-> settings.USE_PARTIAL_TAKE_PROFIT,
                    useAutoBreakeven |-> settings.USE_AUTO_BREAKEVEN,
                    useAdaptiveTs |-> settings.USE_ADAPTIVE_TRAILING_STOP ]
    IN  IF pair.strategy_type = "IGNITION" THEN [manual EXCEPT !.name = "IGNITION"]
        ELSE IF settings.USE_DYNAMIC_PROFILE_SELECTOR
        THEN IF pair.adx_15m < settings.ADX_THRESHOLD_RANGE
             THEN [manual EXCEPT !.name = "SCALPER", !.riskRewardRatio = 75,
                                 !.useAtrSl = FALSE, !.stopLossPct = 200,
                                 !.usePartialTp = FALSE, !.useAutoBreakeven = FALSE,
                                 !.useAdaptiveTs = FALSE]
             ELSE IF pair.atr_pct_15m > settings.ATR_PCT_THRESHOLD_VOLATILE
             THEN [manual EXCEPT !.name = "VOLATILITY_HUNTER", !.riskRewardRatio = 300,
                                 !.useAtrSl = TRUE, !.atrMultiplier = 200,
                                 !.usePartialTp = FALSE, !.useAutoBreakeven = TRUE,
                                 !.useAdaptiveTs = TRUE]
             ELSE [manual EXCEPT !.name = "SNIPER", !.riskRewardRatio = 500,
                                 !.useAtrSl = TRUE, !.atrMultiplier = 150,
                                 !.usePartialTp = TRUE, !.useAutoBreakeven = TRUE,
                                 !.useAdaptiveTs = TRUE]
        ELSE manual

\* symbolRules: the LOT_SIZE step of a symbol in 1/QtyScale (0: no rule)
symbolRules == [s \in Symbols |-> IF s = "AAA" THEN 0 ELSE 1]

\* quantity.toFixed(8) of a quantity held in 1/scale: the nearest multiple
\* of 10^-8, the half upwards; a resolution of 8 decimals or fewer has
\* nothing to round
toFixed8(quantity, scale) ==
    IF scale <= 100000000 THEN quantity
    ELSE LET granule == scale \div 100000000
         IN  Div(quantity + granule \div 2, granule) * granule

\* formatQuantityScaled with a fault: the quantity is rounded to the nearest
\* step
formatQuantityScaled_Nearest(stepSize, quantity, scale) ==
    IF stepSize = 0 THEN toFixed8(quantity, scale)
    ELSE LET granule == IF stepSize < scale THEN stepSize ELSE scale
         IN  Div(quantity + granule \div 2, granule) * granule

\* formatQuantity for a step and a quantity held in 1/scale (stepSize 0: no
\* rule).  factor = 10^max(0, -log10(stepSize)) is 1/stepSize for a step
\* below 1 and 1 for a step of 1 or more.
formatQuantityScaled(stepSize, quantity, scale) ==
    IF stepSize = 0 THEN toFixed8(quantity, scale)
    ELSE IF stepSize = scale THEN Div(quantity, scale) * scale
    ELSE LET granule == IF stepSize < scale THEN stepSize ELSE scale
         IN  Div(quantity, granule) * granule

formatQuantity(symbol, quantity) ==
    formatQuantityScaled(symbolRules[symbol], quantity, QtyScale)

\* does openPosition/closePosition go to the exchange?
UsesExchange == tradingMode = "REAL_LIVE" /\ apiClient

\* openPosition after the order: debit and record the position
OpenSettle(b, newTrade) ==
    [b EXCEPT !.balance = @ - newTrade.entry_price * newTrade.quantity,
              !.activePositions = Append(@, newTrade)]

\* openPosition up to its first await
openPosition(b, pair, quantity, stopLoss, takeProfit, tradeParams) ==
    LET newTrade ==
            [ id |-> b.tradeIdCounter,
              mode |-> tradingMode,
              symbol |-> pair.symbol,
              entry_price |-> pair.price,
              average_entry_price |-> pair.price,
              quantity |-> quantity,
              target_quantity |-> quantity,
              stop_loss |-> stopLoss,
              take_profit |-> takeProfit,
              entry_time |-> Now,
              status |-> "FILLED",
              pnl |-> 0,
              pnl_pct |-> 0,
              entry_snapshot |-> pair,
              highest_price_since_entry |-> pair.price,
              total_cost_usd |-> pair.price * quantity,
              strategy_type |-> pair.strategy_type,
              active_profile |-> IF rev = "part_001" THEN tradeParams.name ELSE Undefined,
              trade_params |-> IF rev = "part_001" THEN tradeParams ELSE Undefined ]
        b1 == [b EXCEPT !.tradeIdCounter = @ + 1]
    IN  IF UsesExchange
        THEN [b1 EXCEPT !.inflight = @ \cup
                 {[kind |-> "open", trade |-> newTrade,
                   orderQty |-> formatQuantity(pair.symbol, quantity)]}]
        ELSE OpenSettle(b1, newTrade)

ActionableScores == {"STRONG BUY", "IGNITION_DETECTED", "MOMENTUM_BUY"}

\* AtMaxOpenPositions with a fault: the limit is compared with > for >=
AtMaxOpenPositions_OffByOne(b) ==
    Len(b.activePositions) > settings.MAX_OPEN_POSITIONS

\* the gates of evaluateSignal, in the order it applies them
AtMaxOpenPositions(b) ==
    Len(b.activePositions) >= settings.MAX_OPEN_POSITIONS

HasActivePosition(b, symbol) ==
    \E i \in 1..Len(b.activePositions) : b.activePositions[i].symbol = symbol

InCooldown(b, symbol) ==
    /\ symbol \in DOMAIN b.recentlyLostSymbols
    /\ Now < b.recentlyLostSymbols[symbol]

\* InvalidRisk with a fault: a risk of exactly 0 is let through
InvalidRisk_Strict(riskPerUnit) == riskPerUnit < 0

\* the risk test of evaluateSignal
InvalidRisk(riskPerUnit) == riskPerUnit <= 0

\* positionSizePct with a fault: dynamic sizing gives every score the
\* strong-buy percentage
positionSizePct_EveryScore(score) ==
    IF settings.USE_DYNAMIC_POSITION_SIZING
    THEN settings.STRONG_BUY_POSITION_SIZE_PCT
    ELSE settings.POSITION_SIZE_PCT

\* the percentage of the balance evaluateSignal sizes a signal with
positionSizePct(score) ==
    IF settings.USE_DYNAMIC_POSITION_SIZING /\ score = "STRONG BUY"
    THEN settings.STRONG_BUY_POSITION_SIZE_PCT
    ELSE settings.POSITION_SIZE_PCT

evaluateSignal(b, pair) ==
    IF pair.score \notin ActionableScores THEN b
    ELSE IF AtMaxOpenPositions(b) THEN b
    ELSE IF HasActivePosition(b, pair.symbol) THEN b
    ELSE IF InCooldown(b, pair.symbol) THEN b
    ELSE
    LET params == IF rev = "part_001" THEN _getTradeParameters(pair)
                  ELSE [ name |-> Undefined,
                         riskRewardRatio |-> settings.RISK_REWARD_RATIO,
                         useAtrSl |-> settings.USE_ATR_STOP_LOSS,
                         atrMultiplier |-> settings.ATR_MULTIPLIER,
                         stopLossPct |-> settings.STOP_LOSS_PCT ]
        positionSizeUSD == PctOf(b.balance, positionSizePct(pair.score))
        quantity == Div(positionSizeUSD, pair.price)
        stopLossPrice ==
            IF params.useAtrSl /\ pair.atr_15m # 0
            THEN pair.price - Times(pair.atr_15m, params.atrMultiplier)
            ELSE pair.price - PctOf(pair.price, params.stopLossPct)
        riskPerUnit == pair.price - stopLossPrice
        takeProfitPrice ==
            IF rev = "part_001" /\ pair.strategy_type # "IGNITION"
            THEN pair.price + Times(riskPerUnit, params.riskRewardRatio)
            ELSE pair.price + Times(riskPerUnit, settings.RISK_REWARD_RATIO)
    IN  IF InvalidRisk(riskPerUnit) THEN b
        ELSE openPosition(b, pair, quantity, stopLossPrice, takeProfitPrice, params)

\* processAnalyzedPair with a fault: without multi-timeframe validation the
\* pair is handed on with the score it came with
processAnalyzedPair_NoPromotion(b, pair) ==
    IF ~isRunning THEN b
    ELSE IF \/ pair.score \in {"MOMENTUM_BUY", "IGNITION_DETECTED"}
            \/ (rev = "part_001" /\ pair.score = "STRONG BUY")
    THEN evaluateSignal(b, pair)
    ELSE IF pair.score = "PENDING_CONFIRMATION"
    THEN IF settings.USE_MTF_VALIDATION
         THEN [b EXCEPT !.pendingConfirmation =
                   (pair.symbol :> [pair |-> pair, timestamp |-> Now]) @@ @]
         ELSE evaluateSignal(b, pair)
    ELSE b

processAnalyzedPair(b, pair) ==
    IF ~isRunning THEN b
    ELSE IF \/ pair.score \in {"MOMENTUM_BUY", "IGNITION_DETECTED"}
            \/ (rev = "part_001" /\ pair.score = "STRONG BUY")
    THEN evaluateSignal(b, pair)
    ELSE IF pair.score = "PENDING_CONFIRMATION"
    THEN IF settings.USE_MTF_VALIDATION
         THEN [b EXCEPT !.pendingConfirmation =
                   (pair.symbol :> [pair |-> pair, timestamp |-> Now]) @@ @]
         ELSE evaluateSignal(b, [pair EXCEPT !.score = "STRONG BUY"])
    ELSE b

\* checkConfirmationsOn5mClose with a fault: a candle that closes at its open
\* confirms too
checkConfirmationsOn5mClose_NonStrict(b, symbol, kline5m) ==
    IF symbol \notin DOMAIN b.pendingConfirmation THEN b
    ELSE
    LET pair == b.pendingConfirmation[symbol].pair
        b1 == [b EXCEPT !.pendingConfirmation =
                  [k \in DOMAIN @ \ {symbol} |-> @[k]]]
    IN  IF kline5m.c >= kline5m.o
        THEN evaluateSignal(b1, [pair EXCEPT !.score = "STRONG BUY"])
        ELSE b1

\* checkConfirmationsOn5mClose with a fault: the pending entry is deleted
\* only when the candle fails to confirm
checkConfirmationsOn5mClose_KeepsEntry(b, symbol, kline5m) ==
    IF symbol \notin DOMAIN b.pendingConfirmation THEN b
    ELSE
    LET pair == b.pendingConfirmation[symbol].pair
        b1 == [b EXCEPT !.pendingConfirmation =
                  [k \in DOMAIN @ \ {symbol} |-> @[k]]]
    IN  IF kline5m.c > kline5m.o
        THEN evaluateSignal(b, [pair EXCEPT !.score = "STRONG BUY"])
        ELSE b1

\* kline5m: the closed 5m candle, of which only open and close are read
checkConfirmationsOn5mClose(b, symbol, kline5m) ==
    IF symbol \notin DOMAIN b.pendingConfirmation THEN b
    ELSE
    LET pair == b.pendingConfirmation[symbol].pair
        b1 == [b EXCEPT !.pendingConfirmation =
                  [k \in DOMAIN @ \ {symbol} |-> @[k]]]
        isBullishConfirmation == kline5m.c > kline5m.o
    IN  IF isBullishConfirmation
        THEN evaluateSignal(b1, [pair EXCEPT !.score = "STRONG BUY"])
        ELSE b1

\* CloseSettle with a fault: every close starts a cooldown, whatever its pnl
CloseSettle_AlwaysCooldown(b, closedTrade) ==
    LET credit == IF rev = "part_001"
                  THEN closedTrade.total_cost_usd + closedTrade.pnl
                  ELSE closedTrade.entry_price * closedTrade.quantity + closedTrade.pnl
    IN  [b EXCEPT !.balance = @ + credit,
                  !.tradeHistory = Append(@, closedTrade),
                  !.recentlyLostSymbols =
                      (closedTrade.symbol :> (Now + settings.LOSS_COOLDOWN_HOURS * MsPerHour)) @@ @]

\* closePosition after the order: credit, ledger entry, loss cooldown
CloseSettle(b, closedTrade) ==
    LET credit == IF rev = "part_001"
                  THEN closedTrade.total_cost_usd + closedTrade.pnl
                  ELSE closedTrade.entry_price * closedTrade.quantity + closedTrade.pnl
        b1 == [b EXCEPT !.balance = @ + credit,
                        !.tradeHistory = Append(@, closedTrade)]
    IN  IF closedTrade.pnl < 0
        THEN [b1 EXCEPT !.recentlyLostSymbols =
                 (closedTrade.symbol :> (Now + settings.LOSS_COOLDOWN_HOURS * MsPerHour)) @@ @]
        ELSE b1

\* index of the position with this id in an array of positions, 0 if none
findIndex(positions, id) ==
    IF \E i \in 1..Len(positions) : positions[i].id = id
    THEN CHOOSE i \in 1..Len(positions) :
             /\ positions[i].id = id
             /\ \A j \in 1..(i - 1) : positions[j].id # id
    ELSE 0

\* the array without its element at index i (splice(i, 1))
splice(positions, i) ==
    [k \in 1..(Len(positions) - 1) |-> IF k < i THEN positions[k] ELSE positions[k + 1]]

\* closePosition with a fault: the position is not spliced out of activePositions
closePosition_NoSplice(b, position, exitPrice) ==
    LET positionIndex == findIndex(b.activePositions, position.id)
    IN  IF positionIndex = 0 THEN b
        ELSE
        LET removed == b.activePositions[positionIndex]
            pnl == (exitPrice - removed.average_entry_price) * removed.quantity
            closedTrade == [removed EXCEPT !.status = "CLOSED", !.pnl = pnl,
                               !.pnl_pct = Div(pnl * 100 * PctScale, removed.total_cost_usd)]
                           @@ [exit_price |-> exitPrice, exit_time |-> Now]
        IN  IF UsesExchange
            THEN [b EXCEPT !.inflight = @ \cup
                     {[kind |-> "close", trade |-> closedTrade,
                       orderQty |-> formatQuantity(closedTrade.symbol, closedTrade.quantity)]}]
            ELSE CloseSettle(b, closedTrade)

\* closePosition up to its first await
closePosition(b, position, exitPrice) ==
    LET positionIndex == findIndex(b.activePositions, position.id)
    IN  IF positionIndex = 0 THEN b
        ELSE
        LET removed == b.activePositions[positionIndex]
            pnl == IF rev = "part_001"
                   THEN (exitPrice - removed.average_entry_price) * removed.quantity
                   ELSE (exitPrice - removed.entry_price) * removed.quantity
            pnl_pct == IF rev = "part_001"
                       THEN Div(pnl * 100 * PctScale, removed.total_cost_usd)
                       ELSE Div(pnl * 100 * PctScale, removed.entry_price * removed.quantity)
            closedTrade == [removed EXCEPT !.status = "CLOSED", !.pnl = pnl,
                                           !.pnl_pct = pnl_pct]
                           @@ [exit_price |-> exitPrice, exit_time |-> Now]
            b1 == [b EXCEPT !.activePositions = splice(@, positionIndex)]
        IN  IF UsesExchange
            THEN [b1 EXCEPT !.inflight = @ \cup
                     {[kind |-> "close", trade |-> closedTrade,
                       orderQty |-> formatQuantity(closedTrade.symbol, closedTrade.quantity)]}]
            ELSE CloseSettle(b1, closedTrade)

\* checkPosition on the element at index i of activePositions
\* checkPosition with one of three faults: "tick" exits at the tick's price
\* for the stop or the target, "current" trails the stop from the current
\* price for the highest, "all" trails the stop of every strategy
checkPositionFaulty(b, i, fault) ==
    LET position == b.activePositions[i]
        currentPrice == priceCache'[position.symbol]
    IN  IF currentPrice = 0 THEN b
        ELSE
        LET highest == Max(position.highest_price_since_entry, currentPrice)
            trailing == /\ position.strategy_type = "IGNITION" \/ fault = "all"
                        /\ settings.USE_IGNITION_TRAILING_STOP
            base == IF fault = "current" THEN currentPrice ELSE highest
            newStopLoss == base - PctOf(base, settings.IGNITION_TRAILING_STOP_PCT)
            stop == IF trailing /\ (newStopLoss > position.stop_loss \/ fault = "current")
                    THEN newStopLoss ELSE position.stop_loss
            checked == [position EXCEPT !.highest_price_since_entry = highest,
                                        !.stop_loss = stop]
            b1 == [b EXCEPT !.activePositions[i] = checked]
            stopHit == currentPrice <= stop
            targetHit ==
                /\ ~stopHit
                /\ currentPrice >= position.take_profit
                /\ IF rev = "part_001" THEN position.strategy_type # "IGNITION"
                   ELSE ~trailing
        IN  IF stopHit
            THEN closePosition(b1, checked, IF fault = "tick" THEN currentPrice ELSE stop)
            ELSE IF targetHit
            THEN closePosition(b1, checked,
                               IF fault = "tick" THEN currentPrice ELSE position.take_profit)
            ELSE b1

checkPosition_ExitsAtTick(b, i) == checkPositionFaulty(b, i, "tick")
checkPosition_TrailsCurrentPrice(b, i) == checkPositionFaulty(b, i, "current")
checkPosition_TrailsEveryStrategy(b, i) == checkPositionFaulty(b, i, "all")

checkPosition(b, i) ==
    LET position == b.activePositions[i]
        currentPrice == priceCache'[position.symbol]
    IN  IF currentPrice = 0 THEN b
        ELSE
        LET highest == Max(position.highest_price_since_entry, currentPrice)
            trailing == position.strategy_type = "IGNITION"
                        /\ settings.USE_IGNITION_TRAILING_STOP
            newStopLoss == highest - PctOf(highest, settings.IGNITION_TRAILING_STOP_PCT)
            stop == IF trailing /\ newStopLoss > position.stop_loss
                    THEN newStopLoss ELSE position.stop_loss
            checked == [position EXCEPT !.highest_price_since_entry = highest,
                                        !.stop_loss = stop]
            b1 == [b EXCEPT !.activePositions[i] = checked]
            stopHit == currentPrice <= stop
            targetHit ==
                /\ ~stopHit
                /\ currentPrice >= position.take_profit
                /\ IF rev = "part_001" THEN position.strategy_type # "IGNITION"
                   ELSE ~trailing
        IN  IF stopHit THEN closePosition(b1, checked, stop)
            ELSE IF targetHit THEN closePosition(b1, checked, position.take_profit)
            ELSE b1

\* activePositions.forEach(pos => checkPosition(pos)): forEach visits the
\* indices 0..len-1 of the array as it is when each index comes up, len
\* being the length at the start
RECURSIVE forEachPosition(_, _, _)
forEachPosition(b, k, len) ==
    IF k > len THEN b
    ELSE IF k <= Len(b.activePositions)
    THEN forEachPosition(checkPosition(b, k), k + 1, len)
    ELSE forEachPosition(b, k + 1, len)

\* checkAllPositions with a fault: the pass also runs while the bot is paused
checkAllPositions_WhilePaused(b) == forEachPosition(b, 1, Len(b.activePositions))

checkAllPositions(b) ==
    IF ~isRunning THEN b
    ELSE forEachPosition(b, 1, Len(b.activePositions))

\* manualClose with a fault: for an id that is not active it closes the first
\* active position
manualClose_ClosesFirst(b, tradeId, currentPrice) ==
    LET found == findIndex(b.activePositions, tradeId)
        idx == IF found = 0 /\ Len(b.activePositions) > 0 THEN 1 ELSE found
    IN  IF idx = 0 THEN b
        ELSE LET position == b.activePositions[idx]
             IN  closePosition(b, position,
                               IF currentPrice = 0 THEN position.average_entry_price
                               ELSE currentPrice)

\* manualClose; currentPrice 0 stands for a missing (falsy) price
manualClose(b, tradeId, currentPrice) ==
    LET idx == findIndex(b.activePositions, tradeId)
    IN  IF idx = 0 THEN b
        ELSE LET position == b.activePositions[idx]
             IN  closePosition(b, position,
                               IF currentPrice = 0 THEN position.average_entry_price
                               ELSE currentPrice)

manualCloseResult(b, tradeId) ==
    IF findIndex(b.activePositions, tradeId) = 0 THEN "not_found" ELSE "success"

\* ----------------------------------------------- RealtimeAnalyzerService
\* (src/backend/RealtimeAnalyzerService.js).  The indicator library's values
\* (EMA, SMA, RSI, OBV, Bollinger bands) are inputs; what the service
\* computes from them is modelled.  A JavaScript object is a record; a
\* property that is missing or undefined is a field the record does not
\* have, and reads as falsy.
Truthy(obj, key) == key \in DOMAIN obj /\ obj[key]

\* obj after obj[key] = source[field]
Assign(obj, key, source, field) ==
    IF field \in DOMAIN source
    THEN [k \in DOMAIN obj \cup {key} |-> IF k = key THEN source[field] ELSE obj[k]]
    ELSE [k \in DOMAIN obj \ {key} |-> obj[k]]

\* obj after obj[key] = value
Put(obj, key, value) ==
    [k \in DOMAIN obj \cup {key} |-> IF k = key THEN value ELSE obj[k]]

\* Array.prototype.sort((a, b) => a - b): the numbers in ascending order
RECURSIVE insertAscending(_, _)
insertAscending(v, sorted) ==
    IF sorted = <<>> THEN <<v>>
    ELSE IF v <= Head(sorted) THEN <<v>> \o sorted
    ELSE <<Head(sorted)>> \o insertAscending(v, Tail(sorted))

RECURSIVE sort(_)
sort(values) ==
    IF values = <<>> THEN <<>> ELSE insertAscending(Head(values), sort(Tail(values)))

\* the squeeze flag of analyzeTimeframe('15m') from the Bollinger width
\* percentages of the window, oldest first, the current width last.  The
\* engine's analyzer keeps the current width in the list it sorts; the older
\* analyzer takes it out with bb.pop().  A threshold index past the end
\* reads undefined, and lastWidth < undefined is false.
is_in_squeeze_15m(revision, widths) ==
    LET lastWidth == widths[Len(widths)]
        bbWidths == IF revision = "backend" THEN widths
                    ELSE SubSeq(widths, 1, Len(widths) - 1)
        sorted == sort(bbWidths)
        index == Len(sorted) \div 4
    IN  IF index + 1 > Len(sorted) THEN FALSE
        ELSE lastWidth < sorted[index + 1]

\* analyzeTimeframe(klines, '15m'): the engine's analyzer goes on to
\* ADX.calculate({ high, low, ... }) with high and low undeclared, which
\* throws a ReferenceError before the result is returned; the older
\* analyzer passes highs and lows and returns the result
analyzeTimeframe15m(revision, widths) ==
    IF revision = "backend"
    THEN [threw |-> TRUE]
    ELSE [threw |-> FALSE, is_in_squeeze_15m |-> is_in_squeeze_15m(revision, widths)]

\* the exchange's answer to a history request made when candle number
\* kline has just closed: the limit candles before it, oldest first
historicalKlines(kline, limit) == [i \in 1..limit |-> kline - limit - 1 + i]

\* klines.push(formattedKline); if (klines.length > 201) klines.shift()
pushKline(klines, kline) ==
    LET pushed == Append(klines, kline)
    IN  IF Len(pushed) > WindowCapacity THEN Tail(pushed) ELSE pushed

\* fetchKlines as runFullAnalysis calls it on the window just updated: a
\* window of AnalysisLimit candles is returned from the cache, a shorter one
\* is fetched again
fetchKlinesFromCache(klines) == Len(klines) >= AnalysisLimit

\* the condition checklist evaluateStrategy starts from
NoConditions ==
    [ trend |-> FALSE, squeeze |-> FALSE, breakout |-> FALSE, volume |-> FALSE,
      safety |-> FALSE, obv |-> FALSE, rsi_mtf |-> FALSE,
      cvd_5m_trending_up |-> FALSE, momentum_impulse |-> FALSE,
      momentum_confirmation |-> FALSE ]

\* the 1h and 15m windows are long enough for an RSI value whenever the
\* evaluators run, so the fallbacks (rsi || 0) are not taken
evaluateSharedConditions(pair, conditions) ==
    [conditions EXCEPT
        !.trend = pair.price_above_ema50_4h,
        !.safety = IF settings.USE_RSI_SAFETY_FILTER
                   THEN pair.rsi_1h < settings.RSI_OVERBOUGHT_THRESHOLD ELSE TRUE,
        !.rsi_mtf = IF settings.USE_RSI_MTF_FILTER
                    THEN pair.rsi_15m < settings.RSI_15M_OVERBOUGHT_THRESHOLD ELSE TRUE]

\* klines1m is the 1m window as the evaluators read it: its last two candles
\* and the 20-period average of its volumes.
\* priceSpikePct >= IGNITION_PRICE_SPIKE_PCT, without rounding
PriceSpike(klines1m) ==
    (klines1m.last.close - klines1m.prev.close) * 100 * PctScale
        >= settings.IGNITION_PRICE_SPIKE_PCT * klines1m.prev.close

\* volumeMultiple >= IGNITION_VOLUME_MULTIPLE, without rounding
VolumeSpike(klines1m) ==
    klines1m.last.volume >= settings.IGNITION_VOLUME_MULTIPLE * klines1m.sma20Volume

\* evaluateIgnitionStrategy with a fault: Ignition passes the RSI safety
\* filter as the other strategies do
evaluateIgnitionStrategy_Filtered(pair, klines1m, conditions) ==
    IF /\ settings.USE_IGNITION_STRATEGY /\ conditions.trend /\ conditions.safety
       /\ klines1m.sma20Volume > 0
       /\ PriceSpike(klines1m) /\ VolumeSpike(klines1m)
    THEN [score |-> "IGNITION_DETECTED", score_value |-> 100,
          strategy_type |-> "IGNITION", conditions |-> conditions]
    ELSE [score |-> "HOLD", score_value |-> 0,
          strategy_type |-> "IGNITION", conditions |-> conditions]

evaluateIgnitionStrategy(pair, klines1m, conditions) ==
    IF /\ settings.USE_IGNITION_STRATEGY /\ conditions.trend
       /\ klines1m.sma20Volume > 0
       /\ PriceSpike(klines1m) /\ VolumeSpike(klines1m)
    THEN [score |-> "IGNITION_DETECTED", score_value |-> 100,
          strategy_type |-> "IGNITION", conditions |-> conditions]
    ELSE [score |-> "HOLD", score_value |-> 0,
          strategy_type |-> "IGNITION", conditions |-> conditions]

evaluateMomentumStrategy(pair, analysis5m, conditions) ==
    LET own == Assign(Assign(conditions, "momentum_impulse", pair, "momentum_impulse_15m"),
                      "momentum_confirmation", analysis5m, "momentum_confirmation_5m")
    IN  IF /\ conditions.trend
           /\ Truthy(own, "momentum_impulse") /\ Truthy(own, "momentum_confirmation")
           /\ conditions.safety /\ conditions.rsi_mtf
        THEN [score |-> "MOMENTUM_BUY", score_value |-> 90,
              strategy_type |-> "MOMENTUM", conditions |-> own]
        ELSE [score |-> "HOLD", score_value |-> 0,
              strategy_type |-> "MOMENTUM", conditions |-> own]

\* 1.5 times the average volume is compared without rounding
evaluatePrecisionStrategy(pair, analysis1m, analysis5m, klines1m, conditions) ==
    LET watch == Assign(conditions, "squeeze", pair, "is_in_squeeze_15m")
        c1 == Put(watch, "breakout", klines1m.last.close > analysis1m.ema9_1m)
        c2 == Put(c1, "volume",
                  IF settings.USE_VOLUME_CONFIRMATION
                  THEN 2 * klines1m.last.volume > 3 * analysis1m.volume_avg_1m
                  ELSE TRUE)
        c3 == Put(c2, "obv",
                  IF settings.USE_OBV_VALIDATION THEN analysis1m.obv_1m_slope > 0 ELSE TRUE)
        own == IF settings.USE_CVD_FILTER
               THEN Assign(c3, "cvd_5m_trending_up", analysis5m, "cvd_5m_trending_up")
               ELSE Put(c3, "cvd_5m_trending_up", TRUE)
    IN  IF ~(conditions.trend /\ Truthy(watch, "squeeze"))
        THEN [score |-> "HOLD", score_value |-> 50,
              strategy_type |-> "PRECISION", conditions |-> watch]
        ELSE IF /\ own.breakout /\ own.volume /\ own.obv
                /\ Truthy(own, "cvd_5m_trending_up")
                /\ conditions.safety /\ conditions.rsi_mtf
        THEN [score |-> "PENDING_CONFIRMATION", score_value |-> 80,
              strategy_type |-> "PRECISION", conditions |-> own]
        ELSE [score |-> "COMPRESSION", score_value |-> 70,
              strategy_type |-> "PRECISION", conditions |-> own]

\* the fields evaluateStrategy writes to the pair, from the winning result
Scored(pair, finalResult) ==
    [ conditions |-> finalResult.conditions,
      conditions_met_count |->
          Cardinality({ k \in DOMAIN finalResult.conditions : finalResult.conditions[k] }),
      score |-> finalResult.score,
      score_value |-> finalResult.score_value,
      strategy_type |-> finalResult.strategy_type,
      is_on_hotlist |-> pair.price_above_ema50_4h /\ Truthy(pair, "is_in_squeeze_15m") ]
    @@ pair

\* evaluateStrategy with a fault: Momentum is compared with Precision only,
\* after Ignition
evaluateStrategy_MomentumLast(pair, analysis1m, analysis5m, klines1m) ==
    LET conditions == evaluateSharedConditions(pair, NoConditions)
        ignitionResult == evaluateIgnitionStrategy(pair, klines1m, conditions)
        momentumResult == evaluateMomentumStrategy(pair, analysis5m, conditions)
        precisionResult ==
            evaluatePrecisionStrategy(pair, analysis1m, analysis5m, klines1m, conditions)
        first == IF ignitionResult.score_value > precisionResult.score_value
                 THEN ignitionResult ELSE precisionResult
        finalResult == IF momentumResult.score_value > precisionResult.score_value
                       THEN momentumResult ELSE first
    IN  Scored(pair, finalResult)

evaluateStrategy(pair, analysis1m, analysis5m, klines1m) ==
    LET conditions == evaluateSharedConditions(pair, NoConditions)
        ignitionResult == evaluateIgnitionStrategy(pair, klines1m, conditions)
        momentumResult == evaluateMomentumStrategy(pair, analysis5m, conditions)
        precisionResult ==
            evaluatePrecisionStrategy(pair, analysis1m, analysis5m, klines1m, conditions)
        first == IF momentumResult.score_value > precisionResult.score_value
                 THEN momentumResult ELSE precisionResult
        finalResult == IF ignitionResult.score_value > first.score_value
                       THEN ignitionResult ELSE first
    IN  Scored(pair, finalResult)

\* botState as the module sets it up and loadData fills it, with the
\* trading mode, the engine's client and the settings an operator chose
InitState(mode, client, chosen) ==
    /\ rev \in Revisions
    /\ settings = chosen
    /\ balance = chosen.INITIAL_VIRTUAL_BALANCE
    /\ activePositions = <<>>
    /\ tradeHistory = <<>>
    /\ tradeIdCounter = 1
    /\ isRunning = TRUE
    /\ tradingMode = mode
    /\ recentlyLostSymbols = EmptyMap
    /\ pendingConfirmation = EmptyMap
    /\ priceCache = [s \in Symbols |-> 0]
    /\ apiClient = client
    /\ inflight = {}
    /\ clock = 0
    /\ lastEvent = <<"init">>

\* no candle has been delivered: the exchange has the candles 1..HistoryLimit
NoKlines ==
    /\ klineData = EmptyMap
    /\ fetches = {}
    /\ feed = [s \in Symbols |-> HistoryLimit]

InitWith(mode, client, chosen) ==
    /\ InitState(mode, client, chosen)
    /\ analyzer = NoCall
    /\ NoKlines

\* ------------------------------------------------------------ the handlers
Bounded(b) == b.tradeIdCounter <= MaxTradeId + 1

\* handleBinanceMessage, kline branch: the analyser's result for a closed
\* candle goes to evaluateSignal
KlineMessage(pair) ==
    /\ LET b == evaluateSignal(BotState, pair)
       IN  Bounded(b) /\ Store(b)
    /\ lastEvent' = <<"evaluateSignal", pair.symbol, pair.score>>
    /\ UNCHANGED <<rev, analyzer, klineData, fetches, feed, settings, isRunning, tradingMode, priceCache, apiClient, clock>>

ProcessAnalyzedPair(pair) ==
    /\ LET b == processAnalyzedPair(BotState, pair)
       IN  Bounded(b) /\ Store(b)
    /\ lastEvent' = <<"processAnalyzedPair", pair.symbol, pair.score>>
    /\ UNCHANGED <<rev, analyzer, klineData, fetches, feed, settings, isRunning, tradingMode, priceCache, apiClient, clock>>

CheckConfirmationsOn5mClose(symbol, kline5m) ==
    /\ LET b == checkConfirmationsOn5mClose(BotState, symbol, kline5m)
       IN  Bounded(b) /\ Store(b)
    /\ lastEvent' = <<"checkConfirmationsOn5mClose", symbol, kline5m,
                       symbol \in DOMAIN pendingConfirmation>>
    /\ UNCHANGED <<rev, analyzer, klineData, fetches, feed, settings, isRunning, tradingMode, priceCache, apiClient, clock>>

\* handleBinanceMessage, ticker branch: cache the prices, then one pass
TickerMessage(payload) ==
    /\ priceCache' = [s \in Symbols |->
                         IF s \in DOMAIN payload THEN payload[s] ELSE priceCache[s]]
    /\ Store(checkAllPositions(BotState))
    /\ lastEvent' = <<"checkAllPositions">>
    /\ UNCHANGED <<rev, analyzer, klineData, fetches, feed, settings, isRunning, tradingMode, apiClient, clock>>

\* POST /api/close-trade/:id
CloseTrade(tradeId) ==
    /\ LET idx == findIndex(activePositions, tradeId)
           price == IF idx = 0 THEN 0 ELSE priceCache[activePositions[idx].symbol]
       IN  Store(manualClose(BotState, tradeId, price))
    /\ lastEvent' = <<"manualClose", manualCloseResult(BotState, tradeId)>>
    /\ UNCHANGED <<rev, analyzer, klineData, fetches, feed, settings, isRunning, tradingMode, priceCache, apiClient, clock>>

\* the exchange answers a BUY: openPosition resumes after its await
BuyFilled(op, slip) ==
    /\ op \in inflight /\ op.kind = "open"
    /\ LET newTrade == [op.trade EXCEPT !.entry_price = @ + slip,
                                        !.quantity = op.orderQty]
       IN  Store(OpenSettle([BotState EXCEPT !.inflight = @ \ {op}], newTrade))
    /\ lastEvent' = <<"orderFilled", "open">>
    /\ UNCHANGED <<rev, analyzer, klineData, fetches, feed, settings, isRunning, tradingMode, priceCache, apiClient, clock>>

\* BuyFailed with a fault: the catch logs but does not return, so the open goes
\* on with the signal's price and quantity
BuyFailed_NoReturn(op) ==
    /\ op \in inflight /\ op.kind = "open"
    /\ Store(OpenSettle([BotState EXCEPT !.inflight = @ \ {op}], op.trade))
    /\ lastEvent' = <<"orderFailed", "open">>
    /\ UNCHANGED <<rev, analyzer, klineData, fetches, feed, settings, isRunning, tradingMode, priceCache, apiClient, clock>>

\* createOrder rejects (or its result has no fill): the catch returns
BuyFailed(op) ==
    /\ op \in inflight /\ op.kind = "open"
    /\ Store([BotState EXCEPT !.inflight = @ \ {op}])
    /\ lastEvent' = <<"orderFailed", "open">>
    /\ UNCHANGED <<rev, analyzer, klineData, fetches, feed, settings, isRunning, tradingMode, priceCache, apiClient, clock>>

\* SellFilled with a fault: the continuation of closePosition is lost, the
\* closed trade is neither credited nor recorded
SellFilled_Lost(op) ==
    /\ op \in inflight /\ op.kind = "close"
    /\ Store([BotState EXCEPT !.inflight = @ \ {op}])
    /\ lastEvent' = <<"orderFilled", "close">>
    /\ UNCHANGED <<rev, analyzer, klineData, fetches, feed, settings, isRunning, tradingMode, priceCache, apiClient, clock>>

\* the exchange answers a SELL: closePosition resumes after its await
SellFilled(op) ==
    /\ op \in inflight /\ op.kind = "close"
    /\ Store(CloseSettle([BotState EXCEPT !.inflight = @ \ {op}], op.trade))
    /\ lastEvent' = <<"orderFilled", "close">>
    /\ UNCHANGED <<rev, analyzer, klineData, fetches, feed, settings, isRunning, tradingMode, priceCache, apiClient, clock>>

\* SellFailed with a fault: the catch returns, as the one of openPosition does
SellFailed_Return(op) ==
    /\ op \in inflight /\ op.kind = "close"
    /\ Store([BotState EXCEPT !.inflight = @ \ {op}])
    /\ lastEvent' = <<"orderFailed", "close">>
    /\ UNCHANGED <<rev, analyzer, klineData, fetches, feed, settings, isRunning, tradingMode, priceCache, apiClient, clock>>

\* SellFailed with a fault: the catch sends the order again, so the close
\* stays suspended on the exchange
SellFailed_Retry(op) ==
    /\ op \in inflight /\ op.kind = "close"
    /\ Store(BotState)
    /\ lastEvent' = <<"orderFailed", "close">>
    /\ UNCHANGED <<rev, analyzer, klineData, fetches, feed, settings, isRunning, tradingMode, priceCache, apiClient, clock>>

\* createOrder rejects: the catch logs and closePosition goes on
SellFailed(op) ==
    /\ op \in inflight /\ op.kind = "close"
    /\ Store(CloseSettle([BotState EXCEPT !.inflight = @ \ {op}], op.trade))
    /\ lastEvent' = <<"orderFailed", "close">>
    /\ UNCHANGED <<rev, analyzer, klineData, fetches, feed, settings, isRunning, tradingMode, priceCache, apiClient, clock>>

\* POST /api/bot/start and /api/bot/stop
BotStart ==
    /\ ~isRunning
    /\ isRunning' = TRUE
    /\ lastEvent' = <<"bot/start">>
    /\ UNCHANGED <<rev, analyzer, klineData, fetches, feed, settings, balance, activePositions, tradeHistory, tradeIdCounter,
                   tradingMode, recentlyLostSymbols, pendingConfirmation, priceCache,
                   apiClient, inflight, clock>>

BotStop ==
    /\ isRunning
    /\ isRunning' = FALSE
    /\ lastEvent' = <<"bot/stop">>
    /\ UNCHANGED <<rev, analyzer, klineData, fetches, feed, settings, balance, activePositions, tradeHistory, tradeIdCounter,
                   tradingMode, recentlyLostSymbols, pendingConfirmation, priceCache,
                   apiClient, inflight, clock>>

\* POST /api/mode
SetMode(mode) ==
    /\ mode \in Modes /\ mode # tradingMode
    /\ tradingMode' = mode
    /\ lastEvent' = <<"mode">>
    /\ UNCHANGED <<rev, analyzer, klineData, fetches, feed, settings, balance, activePositions, tradeHistory, tradeIdCounter,
                   isRunning, recentlyLostSymbols, pendingConfirmation, priceCache,
                   apiClient, inflight, clock>>

\* POST /api/settings: the new settings, and an API client when keys are set
PostSettings(newSettings) ==
    /\ newSettings # settings
    /\ settings' = newSettings
    /\ apiClient' = (apiClient \/ newSettings.HAS_API_KEYS)
    /\ lastEvent' = <<"settings">>
    /\ UNCHANGED <<rev, analyzer, klineData, fetches, feed, balance, activePositions, tradeHistory, tradeIdCounter,
                   isRunning, tradingMode, recentlyLostSymbols, pendingConfirmation,
                   priceCache, inflight, clock>>

\* POST /api/clear-data: the collections, the balance and the id counter are
\* reset; calls suspended on the exchange are not touched
ClearData ==
    /\ activePositions' = <<>>
    /\ tradeHistory' = <<>>
    /\ balance' = settings.INITIAL_VIRTUAL_BALANCE
    /\ tradeIdCounter' = 1
    /\ lastEvent' = <<"clear-data">>
    /\ UNCHANGED <<rev, analyzer, klineData, fetches, feed, settings, isRunning, tradingMode, recentlyLostSymbols,
                   pendingConfirmation, priceCache, apiClient, inflight, clock>>

\* realtimeAnalyzer.evaluateStrategy is applied to the aggregates
EvaluateStrategy ==
    /\ analyzer.call = "evaluateStrategy" /\ ~analyzer.returned
    /\ LET a == analyzer.args
       IN  analyzer' = [ call |-> "evaluateStrategy", args |-> a, returned |-> TRUE,
                         result |-> evaluateStrategy(a.pair, a.analysis1m,
                                                     a.analysis5m, a.klines1m) ]
    /\ lastEvent' = <<"evaluateStrategy">>
    /\ UNCHANGED <<rev, klineData, fetches, feed, settings, balance, activePositions, tradeHistory, tradeIdCounter,
                   isRunning, tradingMode, recentlyLostSymbols, pendingConfirmation,
                   priceCache, apiClient, inflight, clock>>

\* realtimeAnalyzer.analyzeTimeframe(klines, '15m') is applied to a window
AnalyzeTimeframe ==
    /\ analyzer.call = "analyzeTimeframe" /\ ~analyzer.returned
    /\ analyzer' = [ call |-> "analyzeTimeframe", args |-> analyzer.args, returned |-> TRUE,
                     result |-> analyzeTimeframe15m(rev, analyzer.args.bbWidths) ]
    /\ lastEvent' = <<"analyzeTimeframe">>
    /\ UNCHANGED <<rev, klineData, fetches, feed, settings, balance, activePositions, tradeHistory, tradeIdCounter,
                   isRunning, tradingMode, recentlyLostSymbols, pendingConfirmation,
                   priceCache, apiClient, inflight, clock>>

\* handleNewKline(symbol, '1m', kline) with the next closed candle of the
\* stream: with a window for the key it pushes the candle; without one it
\* asks for the history and is suspended on the fetch
HandleNewKline(key) ==
    /\ feed[key] < HistoryLimit + MaxCandles
    /\ LET kline == feed[key] + 1
       IN  /\ feed' = [feed EXCEPT ![key] = kline]
           /\ IF key \in DOMAIN klineData
              THEN /\ fetchKlinesFromCache(pushKline(klineData[key], kline))
                   /\ klineData' = [klineData EXCEPT ![key] = pushKline(@, kline)]
                   /\ fetches' = fetches
              ELSE /\ klineData' = klineData
                   /\ fetches' = fetches \cup {[key |-> key, kline |-> kline]}
           /\ lastEvent' = <<"handleNewKline", key, kline>>
    /\ UNCHANGED <<rev, analyzer, settings, balance, activePositions, tradeHistory,
                   tradeIdCounter, isRunning, tradingMode, recentlyLostSymbols,
                   pendingConfirmation, priceCache, apiClient, inflight, clock>>

\* the history fetch of a suspended handleNewKline returns: fetchKlines
\* stores the history under the key, handleNewKline stores it again and
\* pushes its candle
HistoryFetched(call) ==
    /\ call \in fetches
    /\ LET klines == pushKline(historicalKlines(call.kline, HistoryLimit), call.kline)
       IN  /\ fetchKlinesFromCache(klines)
           /\ klineData' = (call.key :> klines) @@ klineData
    /\ fetches' = fetches \ {call}
    /\ feed' = feed
    /\ lastEvent' = <<"historyFetched", call.key, call.kline>>
    /\ UNCHANGED <<rev, analyzer, settings, balance, activePositions, tradeHistory,
                   tradeIdCounter, isRunning, tradingMode, recentlyLostSymbols,
                   pendingConfirmation, priceCache, apiClient, inflight, clock>>

\* tradingEngine.formatQuantity is applied to a step and a quantity
FormatQuantity ==
    /\ analyzer.call = "formatQuantity" /\ ~analyzer.returned
    /\ LET a == analyzer.args
       IN  analyzer' = [ call |-> "formatQuantity", args |-> a, returned |-> TRUE,
                         result |-> formatQuantityScaled(a.stepSize, a.quantity,
                                                         QuantityUnit) ]
    /\ lastEvent' = <<"formatQuantity">>
    /\ UNCHANGED <<rev, klineData, fetches, feed, settings, balance, activePositions,
                   tradeHistory, tradeIdCounter, isRunning, tradingMode,
                   recentlyLostSymbols, pendingConfirmation, priceCache, apiClient,
                   inflight, clock>>

\* time passes
AdvanceClock ==
    /\ clock < MaxClock
    /\ clock' = clock + 1
    /\ lastEvent' = <<"clock">>
    /\ UNCHANGED <<rev, analyzer, klineData, fetches, feed, settings, balance, activePositions, tradeHistory, tradeIdCounter,
                   isRunning, tradingMode, recentlyLostSymbols, pendingConfirmation,
                   priceCache, apiClient, inflight>>

Candles5m == { [o |-> 100 * PriceScale, c |-> c] :
               c \in {99 * PriceScale, 100 * PriceScale, 101 * PriceScale} }
TradeIds == 1..(MaxTradeId + 1)

\* ---------------------------------------------------------- specifications
\* Live trading on one symbol: API keys installed, mode REAL_LIVE, every
\* open and close goes through the exchange and is suspended on it.
LivePairs == PairsOf({"AAA"}, {"HOLD", "MOMENTUM_BUY"})

Init == InitWith("REAL_LIVE", TRUE, [DefaultSettings EXCEPT !.HAS_API_KEYS = TRUE])

Next ==
    \/ \E pair \in LivePairs : KlineMessage(pair)
    \/ \E payload \in [{"AAA"} -> {StopTick}] : TickerMessage(payload)
    \/ \E id \in TradeIds : CloseTrade(id)
    \/ \E op \in inflight, slip \in FillSlips : BuyFilled(op, slip)
    \/ \E op \in inflight : BuyFailed(op)
    \/ \E op \in inflight : SellFilled(op)
    \/ \E op \in inflight : SellFailed(op)

Spec == Init /\ [][Next]_vars

\* Live trading on one symbol with an exchange that answers every SELL
\* order: the awaited createOrder of closePosition resolves or rejects.
SpecSettle ==
    /\ Init
    /\ [][Next]_vars
    /\ WF_vars(\E op \in inflight : SellFilled(op) \/ SellFailed(op))

\* Virtual trading on one symbol while time passes: closes at the stop (a
\* loss) and from the operator (a gain at the high tick), and signals
\* before and after the cooldown's expiry.
CooldownPairs == PairsOf({"AAA"}, {"HOLD", "MOMENTUM_BUY"})

InitCooldown == InitWith("VIRTUAL", FALSE, DefaultSettings)

NextCooldown ==
    \/ \E pair \in CooldownPairs : KlineMessage(pair)
    \/ \E payload \in [{"AAA"} -> {StopTick, HighTick}] : TickerMessage(payload)
    \/ \E id \in TradeIds : CloseTrade(id)
    \/ AdvanceClock

SpecCooldown == InitCooldown /\ [][NextCooldown]_vars

\* Live trading on two symbols with room for a single position.
MaxPairs == PairsOf(Symbols, {"HOLD", "MOMENTUM_BUY"})

InitMax == InitWith("REAL_LIVE", TRUE,
                    [DefaultSettings EXCEPT !.HAS_API_KEYS = TRUE,
                                            !.MAX_OPEN_POSITIONS = 1])

NextMax ==
    \/ \E pair \in MaxPairs : KlineMessage(pair)
    \/ \E pair \in MaxPairs : ProcessAnalyzedPair(pair)
    \/ \E op \in inflight, slip \in FillSlips : BuyFilled(op, slip)
    \/ \E op \in inflight : BuyFailed(op)

SpecMax == InitMax /\ [][NextMax]_vars

\* Virtual trading on one symbol with an operator who pauses and resumes the
\* bot; multi-timeframe validation is on, so that signals wait for their
\* 5m confirmation.
PausePairs == PairsOf({"AAA"}, {"MOMENTUM_BUY", "PENDING_CONFIRMATION"})

InitPause == InitWith("VIRTUAL", FALSE,
                      [DefaultSettings EXCEPT !.USE_MTF_VALIDATION = TRUE])

NextPause ==
    \/ \E pair \in PausePairs : KlineMessage(pair)
    \/ \E pair \in PausePairs : ProcessAnalyzedPair(pair)
    \/ \E kline5m \in Candles5m : CheckConfirmationsOn5mClose("AAA", kline5m)
    \/ \E payload \in [{"AAA"} -> {StopTick}] : TickerMessage(payload)
    \/ \E id \in TradeIds : CloseTrade(id)
    \/ BotStop
    \/ BotStart

SpecPause == InitPause /\ [][NextPause]_vars

\* Precision signals without multi-timeframe validation, in either trading
\* mode, with dynamic position sizing switched on or off in the settings.
SizingPairs == PairsOf({"AAA"}, {"HOLD", "PENDING_CONFIRMATION"})

InitSizing ==
    \E dynamic \in BOOLEAN, mode \in Modes :
        InitWith(mode, mode = "REAL_LIVE",
                 [DefaultSettings EXCEPT !.USE_DYNAMIC_POSITION_SIZING = dynamic,
                                         !.HAS_API_KEYS = (mode = "REAL_LIVE")])

NextSizing ==
    \/ \E pair \in SizingPairs : ProcessAnalyzedPair(pair)
    \/ \E id \in TradeIds : CloseTrade(id)
    \/ \E op \in inflight, slip \in FillSlips : BuyFilled(op, slip)
    \/ \E op \in inflight : BuyFailed(op)
    \/ \E op \in inflight : SellFilled(op)

SpecSizing == InitSizing /\ [][NextSizing]_vars

\* Signals whose stop distance is zero or a single price step: the adaptive
\* selector is off, the ATR multiplier is 0 or the smallest value of the
\* resolution, the stop percentage is that, 0 or below 0; a pair comes with
\* or without ATR.
RiskPairs == PairsWith({"AAA"}, {"HOLD", "MOMENTUM_BUY"}, {0, 2 * PriceScale},
                       {25}, {3 * PctScale})

RiskSettings ==
    { [DefaultSettings EXCEPT !.USE_DYNAMIC_PROFILE_SELECTOR = FALSE,
                              !.STOP_LOSS_PCT = pct,
                              !.ATR_MULTIPLIER = mult,
                              !.HAS_API_KEYS = TRUE] :
      pct \in {-1, 0, 1}, mult \in {0, 1} }

InitRisk ==
    \E chosen \in RiskSettings, mode \in Modes : InitWith(mode, TRUE, chosen)

NextRisk ==
    \/ \E pair \in RiskPairs : KlineMessage(pair)
    \/ \E payload \in [{"AAA"} -> {StopTick}] : TickerMessage(payload)
    \/ \E op \in inflight, slip \in FillSlips : BuyFilled(op, slip)
    \/ \E op \in inflight : BuyFailed(op)
    \/ \E op \in inflight : SellFilled(op)
    \/ \E op \in inflight : SellFailed(op)

SpecRisk == InitRisk /\ [][NextRisk]_vars

\* Virtual trading on one symbol with Momentum and Ignition entries, ticks
\* below, at and between every stop and target of the two revisions, and an
\* operator who switches the Ignition trailing stop off and on.
ExitPairs == PairsOf({"AAA"}, {"MOMENTUM_BUY", "IGNITION_DETECTED"})

ExitTicks == { 96 * PriceScale, StopTick, 10835, HighTick,
               112 * PriceScale, 115 * PriceScale }

ExitSettings ==
    { [DefaultSettings EXCEPT !.USE_IGNITION_TRAILING_STOP = trailing] :
      trailing \in BOOLEAN }

InitExit == InitWith("VIRTUAL", FALSE, DefaultSettings)

NextExit ==
    \/ \E pair \in ExitPairs : KlineMessage(pair)
    \/ \E payload \in [{"AAA"} -> ExitTicks] : TickerMessage(payload)
    \/ \E newSettings \in ExitSettings : PostSettings(newSettings)

SpecExit == InitExit /\ [][NextExit]_vars

\* Virtual trading on one symbol with signals of every market regime: ADX
\* below, at and above the range threshold, ATR% at and above the volatility
\* threshold, with and without an ATR value; the operator switches the
\* adaptive selector off and on.
ProfilePairs == PairsWith({"AAA"}, {"MOMENTUM_BUY", "IGNITION_DETECTED"},
                          {0, 2 * PriceScale}, {15, 20, 25},
                          {5 * PctScale, 6 * PctScale})

ProfileSettings ==
    { [DefaultSettings EXCEPT !.USE_DYNAMIC_PROFILE_SELECTOR = selector] :
      selector \in BOOLEAN }

\* a tick between the stop and the target of every profile, and one at or
\* below every stop
ProfileTicks == { 101 * PriceScale, StopTick }

InitProfile == InitWith("VIRTUAL", FALSE, DefaultSettings)

NextProfile ==
    \/ \E pair \in ProfilePairs : KlineMessage(pair)
    \/ \E payload \in [{"AAA"} -> ProfileTicks] : TickerMessage(payload)
    \/ \E newSettings \in ProfileSettings : PostSettings(newSettings)

SpecProfile == InitProfile /\ [][NextProfile]_vars

\* Opening positions from every balance and fill: both modes, a balance
\* that is zero or the configured one, and exchange fills below, at and
\* above the signal price.
CreationPairs == PairsOf({"AAA"}, {"HOLD", "MOMENTUM_BUY"})
CreationBalances == {0, DefaultSettings.INITIAL_VIRTUAL_BALANCE}
CreationSlips == {-4 * PriceScale, 0, PriceScale}

InitCreation ==
    \E mode \in Modes, initial \in CreationBalances :
        InitWith(mode, TRUE, [DefaultSettings EXCEPT !.HAS_API_KEYS = TRUE,
                                                     !.INITIAL_VIRTUAL_BALANCE = initial])

NextCreation ==
    \/ \E pair \in CreationPairs : KlineMessage(pair)
    \/ \E payload \in [{"AAA"} -> {StopTick}] : TickerMessage(payload)
    \/ \E op \in inflight, slip \in CreationSlips : BuyFilled(op, slip)
    \/ \E op \in inflight : BuyFailed(op)
    \/ \E op \in inflight : SellFilled(op)

SpecCreation == InitCreation /\ [][NextCreation]_vars

\* Live trading on one symbol with an operator who clears the data: opens
\* and closes are suspended on the exchange while /api/clear-data runs.
ClearPairs == PairsOf({"AAA"}, {"HOLD", "MOMENTUM_BUY"})

InitClear == InitWith("REAL_LIVE", TRUE, [DefaultSettings EXCEPT !.HAS_API_KEYS = TRUE])

NextClear ==
    \/ \E pair \in ClearPairs : KlineMessage(pair)
    \/ \E payload \in [{"AAA"} -> {StopTick}] : TickerMessage(payload)
    \/ \E op \in inflight : BuyFilled(op, 0)
    \/ \E op \in inflight : SellFilled(op)
    \/ (Cardinality(inflight) <= MaxSuspended /\ ClearData)

SpecClear == InitClear /\ [][NextClear]_vars

\* The confirmation gate under the candle stream: multi-timeframe validation
\* is on and the stream keeps delivering closed candles, the 5m ones
\* included, all of which handleBinanceMessage hands to its kline branch.
\* No code of the repository calls checkConfirmationsOn5mClose on a 5m
\* close, so it is a step that may happen but is not bound to.
GatePairs == PairsOf({"AAA"}, {"HOLD", "MOMENTUM_BUY", "PENDING_CONFIRMATION"})

InitGate == InitWith("VIRTUAL", FALSE,
                     [DefaultSettings EXCEPT !.USE_MTF_VALIDATION = TRUE])

NextGate ==
    \/ \E pair \in GatePairs : KlineMessage(pair)
    \/ \E pair \in GatePairs : ProcessAnalyzedPair(pair)
    \/ \E kline5m \in Candles5m : CheckConfirmationsOn5mClose("AAA", kline5m)
    \/ \E payload \in [{"AAA"} -> {StopTick, HighTick}] : TickerMessage(payload)

SpecGate ==
    /\ InitGate /\ [][NextGate]_vars
    /\ WF_vars(\E pair \in GatePairs : KlineMessage(pair))

\* Signals of every tier, in either trading mode, with dynamic position
\* sizing on or off: Precision signals arrive promoted (STRONG BUY) or are
\* promoted by processAnalyzedPair, Momentum and Ignition signals as they are.
TierPairs == PairsOf({"AAA"}, {"STRONG BUY", "PENDING_CONFIRMATION",
                               "MOMENTUM_BUY", "IGNITION_DETECTED"})

InitTier ==
    \E dynamic \in BOOLEAN, mode \in Modes :
        InitWith(mode, mode = "REAL_LIVE",
                 [DefaultSettings EXCEPT !.USE_DYNAMIC_POSITION_SIZING = dynamic,
                                         !.HAS_API_KEYS = (mode = "REAL_LIVE")])

NextTier ==
    \/ \E pair \in TierPairs : KlineMessage(pair)
    \/ \E pair \in TierPairs : ProcessAnalyzedPair(pair)
    \/ \E payload \in [{"AAA"} -> {StopTick}] : TickerMessage(payload)
    \/ \E op \in inflight : BuyFilled(op, 0)
    \/ \E op \in inflight : SellFilled(op)

SpecTier == InitTier /\ [][NextTier]_vars

\* The strategy evaluators of src/backend/RealtimeAnalyzerService.js on the
\* aggregates of one analysis cycle.  The 1m, 15m, 1h and 4h windows have
\* passed the length guard of runFullAnalysis; the 5m window, which it does
\* not guard, has 21 candles or fewer than 21, and then an empty aggregate.
\* The RSI values lie just below and at their thresholds (75 and 70), the
\* 1m close at the fast EMA, just below and at a 5% spike over the previous
\* close, the 1m volume at 1.5 times its average, just below and at 10 times.
Aggregates5m ==
    {EmptyMap} \cup
    { [cvd_5m_trending_up |-> cvd, momentum_confirmation_5m |-> conf] :
      cvd \in BOOLEAN, conf \in BOOLEAN }

StrategyInputs ==
    { [ pair |-> [ symbol |-> "AAA", price |-> 100 * PriceScale,
                   price_above_ema50_4h |-> trend,
                   rsi_1h |-> rsi1h, rsi_15m |-> rsi15m,
                   is_in_squeeze_15m |-> squeeze,
                   momentum_impulse_15m |-> impulse,
                   atr_15m |-> 2 * PriceScale, adx_15m |-> 25,
                   atr_pct_15m |-> 3 * PctScale ],
        analysis1m |-> [ ema9_1m |-> 100 * PriceScale, volume_avg_1m |-> 100,
                         obv_1m_slope |-> obv ],
        analysis5m |-> analysis5m,
        klines1m |-> [ prev |-> [close |-> 100 * PriceScale],
                       last |-> [close |-> close, volume |-> volume],
                       sma20Volume |-> 100 ] ] :
      trend \in BOOLEAN, rsi1h \in {74, 75}, rsi15m \in {69, 70},
      squeeze \in BOOLEAN, impulse \in BOOLEAN, obv \in {0, 1},
      analysis5m \in Aggregates5m,
      close \in {100 * PriceScale, 10499, 105 * PriceScale},
      volume \in {150, 999, 1000} }

StrategySettings ==
    { [DefaultSettings EXCEPT !.USE_RSI_SAFETY_FILTER = safety,
                              !.USE_RSI_MTF_FILTER = mtf,
                              !.USE_CVD_FILTER = cvd,
                              !.USE_IGNITION_STRATEGY = ignition] :
      safety \in BOOLEAN, mtf \in BOOLEAN, cvd \in BOOLEAN, ignition \in BOOLEAN }

InitStrategy ==
    /\ \E chosen \in StrategySettings : InitState("VIRTUAL", FALSE, chosen)
    /\ rev = "backend"
    /\ \E args \in StrategyInputs :
           analyzer = [call |-> "evaluateStrategy", args |-> args, returned |-> FALSE]
    /\ NoKlines

NextStrategy == EvaluateStrategy

SpecStrategy == InitStrategy /\ [][NextStrategy]_vars

\* analyzeTimeframe on 15m windows of both analyzers.  A window is given by
\* the width percentages BollingerBands.calculate yields for it, oldest
\* first: period 20 on the 21 to 24 candles that pass the length test of
\* analyzeTimeframe gives 2 to 5 widths.
SqueezeWidths == {1, 2, 3}

SqueezeWindows == UNION { [1..n -> SqueezeWidths] : n \in 2..5 }

InitSqueeze ==
    /\ InitState("VIRTUAL", FALSE, DefaultSettings)
    /\ \E widths \in SqueezeWindows :
           analyzer = [ call |-> "analyzeTimeframe", args |-> [bbWidths |-> widths],
                        returned |-> FALSE ]
    /\ NoKlines

NextSqueeze == AnalyzeTimeframe

SpecSqueeze == InitSqueeze /\ [][NextSqueeze]_vars

\* Positions under ticks that do not close them: both modes, exchange fills
\* at and above the signal price, and ticks at the stop, between the signal
\* price and the highest fill, and above every fill.
HighestPairs == PairsOf({"AAA"}, {"HOLD", "MOMENTUM_BUY"})

HighestTicks == { StopTick, 10050, 102 * PriceScale }

InitHighest ==
    \E mode \in Modes :
        InitWith(mode, TRUE, [DefaultSettings EXCEPT !.HAS_API_KEYS = TRUE])

NextHighest ==
    \/ \E pair \in HighestPairs : KlineMessage(pair)
    \/ \E payload \in [{"AAA"} -> HighestTicks] : TickerMessage(payload)
    \/ \E op \in inflight, slip \in FillSlips : BuyFilled(op, slip)
    \/ \E op \in inflight : SellFilled(op)

SpecHighest == InitHighest /\ [][NextHighest]_vars

\* The 1m candle windows of two symbols under the candle stream: the
\* stream delivers closed candles in increasing order, the first candle of a
\* key starts the history fetch, and the fetches return in any order.
InitKlines == InitWith("VIRTUAL", FALSE, DefaultSettings)

NextKlines ==
    \/ \E key \in Symbols : HandleNewKline(key)
    \/ \E call \in fetches : HistoryFetched(call)

SpecKlines == InitKlines /\ [][NextKlines]_vars

\* formatQuantity on quantities with up to nine decimals, for a symbol
\* without a rule and for LOT_SIZE steps of 1, 0.1, 0.001 and 10^-8.  The
\* quantities lie at, just below and just above multiples of every step, and
\* at the halves of the eighth decimal.
StepSizes == { 0, QuantityUnit, QuantityUnit \div 10, QuantityUnit \div 1000, 10 }

RawQuantities ==
    { whole + part : whole \in {0, QuantityUnit},
                     part \in { 0, 1, 4, 5, 9, 10, 15, 999999, 1000000, 1000001,
                                99999999, 100000000, 100000001, 123456789,
                                999999994, 999999995, 999999999 } }

InitQuantity ==
    /\ InitState("VIRTUAL", FALSE, DefaultSettings)
    /\ NoKlines
    /\ \E stepSize \in StepSizes, quantity \in RawQuantities :
           analyzer = [ call |-> "formatQuantity",
                        args |-> [stepSize |-> stepSize, quantity |-> quantity],
                        returned |-> FALSE ]

NextQuantity == FormatQuantity

SpecQuantity == InitQuantity /\ [][NextQuantity]_vars

\* Virtual trading on two symbols under ticker messages that carry a price
\* for both: at the stop of every position, between stop and target, and
\* above every target.
PassPairs == PairsOf(Symbols, {"HOLD", "MOMENTUM_BUY"})

PassTicks == { StopTick, 10050, 115 * PriceScale }

InitPass == InitWith("VIRTUAL", FALSE, DefaultSettings)

NextPass ==
    \/ \E pair \in PassPairs : KlineMessage(pair)
    \/ \E payload \in [Symbols -> PassTicks] : TickerMessage(payload)

SpecPass == InitPass /\ [][NextPass]_vars

\* Virtual trading on one symbol with Momentum and Ignition entries and an
\* operator who pauses and resumes the bot and closes positions by hand,
\* under ticks at the stop, above the entry and above every target.
FrozenPairs == PairsOf({"AAA"}, {"MOMENTUM_BUY", "IGNITION_DETECTED"})

FrozenTicks == { StopTick, HighTick, 115 * PriceScale }

InitFrozen == InitWith("VIRTUAL", FALSE, DefaultSettings)

NextFrozen ==
    \/ \E pair \in FrozenPairs : KlineMessage(pair)
    \/ \E payload \in [{"AAA"} -> FrozenTicks] : TickerMessage(payload)
    \/ \E id \in TradeIds : CloseTrade(id)
    \/ BotStop
    \/ BotStart

SpecFrozen == InitFrozen /\ [][NextFrozen]_vars

TypeOK ==
    /\ rev \in Revisions
    /\ isRunning \in BOOLEAN
    /\ tradingMode \in Modes
    /\ apiClient \in BOOLEAN
    /\ clock \in 0..MaxClock
    /\ tradeIdCounter \in 1..(MaxTradeId + 1)
    /\ DOMAIN recentlyLostSymbols \subseteq Symbols
    /\ DOMAIN pendingConfirmation \subseteq Symbols

\* ------------------------------------------------------------------ claims
IdsOf(positions) == { positions[i].id : i \in 1..Len(positions) }
InflightOf(kind) == { op \in inflight : op.kind = kind }

\* C1: activePositions holds at most one position per symbol, also while
\* openPosition calls are suspended on the exchange order.
C1_OnePositionPerSymbol ==
    \A i, j \in 1..Len(activePositions) :
        i # j => activePositions[i].symbol # activePositions[j].symbol

\* C2: no two open/close operations for the same symbol are in flight at the
\* awaited exchange call at the same time.
C2_SerializedPerSymbol ==
    \A o1, o2 \in inflight : o1 # o2 => o1.trade.symbol # o2.trade.symbol

\* C3: a failed exchange BUY appends no position and debits no balance.
C3_FailedBuyAllOrNothing ==
    [][ lastEvent' = <<"orderFailed", "open">> =>
            /\ activePositions' = activePositions
            /\ balance' = balance
            /\ tradeHistory' = tradeHistory ]_vars

C3_Witness ==
    /\ lastEvent = <<"orderFailed", "open">>
    /\ activePositions = <<>>
    /\ balance = settings.INITIAL_VIRTUAL_BALANCE
    /\ tradeIdCounter > 1

\* C4: an open aborted by an execution failure leaves the whole BotState as it
\* was before the signal was evaluated, tradeIdCounter included: when the
\* failed open holds the last id issued, the counter is back at that id.
C4_AbortedOpenRestoresBotState ==
    [][ \A op \in inflight :
            ( /\ op.kind = "open"
              /\ op \notin inflight'
              /\ lastEvent' = <<"orderFailed", "open">> ) =>
            /\ UNCHANGED <<balance, activePositions, tradeHistory,
                           recentlyLostSymbols, pendingConfirmation>>
            /\ (tradeIdCounter = op.trade.id + 1 => tradeIdCounter' = op.trade.id) ]_vars

\* C5: when the exchange SELL fails the local close still completes: the
\* position is not active, it is appended to tradeHistory as CLOSED with its
\* exit facts, and balance is credited as the successful path credits it.
C5_FailedSellStillCloses ==
    [][ \A op \in inflight :
            ( /\ op.kind = "close"
              /\ op \notin inflight'
              /\ lastEvent' = <<"orderFailed", "close">> ) =>
            /\ op.trade.id \notin IdsOf(activePositions')
            /\ tradeHistory' = Append(tradeHistory, op.trade)
            /\ op.trade.status = "CLOSED"
            /\ {"exit_price", "exit_time", "pnl", "pnl_pct"} \subseteq DOMAIN op.trade
            /\ balance' = CloseSettle(BotState, op.trade).balance ]_vars

C5_Witness ==
    /\ lastEvent = <<"orderFailed", "close">>
    /\ Len(tradeHistory) >= 1
    /\ tradeHistory[Len(tradeHistory)].status = "CLOSED"
    /\ tradeHistory[Len(tradeHistory)].id \notin IdsOf(activePositions)

\* C6: every trade of tradeHistory has pnl = (exit_price - average_entry_price)
\* * quantity and pnl_pct = pnl / total_cost_usd * 100, in every trading mode.
C6_PnlFormula ==
    \A i \in 1..Len(tradeHistory) :
        LET t == tradeHistory[i]
        IN  /\ t.pnl = (t.exit_price - t.average_entry_price) * t.quantity
            /\ t.pnl_pct = Div(t.pnl * 100 * PctScale, t.total_cost_usd)

\* C7: a position is closed exactly once and is owned by one collection: no id
\* is both active and in the ledger, nor active or in the ledger while its
\* close is in flight; an id is in the ledger at most once and in flight for
\* closing at most once; active positions are FILLED, ledger entries CLOSED;
\* a ledger entry stays as it is and its id is never active again.
C7_State ==
    /\ IdsOf(activePositions) \cap IdsOf(tradeHistory) = {}
    /\ \A op \in InflightOf("close") :
           /\ op.trade.id \notin IdsOf(activePositions) \cup IdsOf(tradeHistory)
           /\ op.trade.status = "CLOSED"
           /\ \A other \in InflightOf("close") : other.trade.id = op.trade.id => other = op
    /\ \A i, j \in 1..Len(tradeHistory) :
           tradeHistory[i].id = tradeHistory[j].id => i = j
    /\ \A i \in 1..Len(activePositions) : activePositions[i].status = "FILLED"
    /\ \A i \in 1..Len(tradeHistory) : tradeHistory[i].status = "CLOSED"

C7_Step ==
    /\ Len(tradeHistory') >= Len(tradeHistory)
    /\ \A i \in 1..Len(tradeHistory) : tradeHistory'[i] = tradeHistory[i]
    /\ \A id \in IdsOf(tradeHistory) : id \notin IdsOf(activePositions')
    /\ \A op \in InflightOf("close") : op.trade.id \notin IdsOf(activePositions')

C8_Settle ==
    \A s \in Symbols :
        LET losses == { i \in (Len(tradeHistory) + 1)..Len(tradeHistory') :
                          tradeHistory'[i].symbol = s /\ tradeHistory'[i].pnl < 0 }
        IN  IF losses # {}
            THEN /\ s \in DOMAIN recentlyLostSymbols'
                 /\ recentlyLostSymbols'[s] = Now + settings.LOSS_COOLDOWN_HOURS * MsPerHour
            ELSE /\ (s \in DOMAIN recentlyLostSymbols') = (s \in DOMAIN recentlyLostSymbols)
                 /\ s \in DOMAIN recentlyLostSymbols =>
                        recentlyLostSymbols'[s] = recentlyLostSymbols[s]

C8_Gate ==
    \A s \in Symbols, score \in ActionableScores :
        ( /\ lastEvent' = <<"evaluateSignal", s, score>>
          /\ s \in DOMAIN recentlyLostSymbols ) =>
        IF Now < recentlyLostSymbols[s]
        THEN UNCHANGED <<balance, activePositions, tradeHistory, tradeIdCounter, inflight>>
        ELSE activePositions = <<>> =>
                 /\ Len(activePositions') = 1
                 /\ activePositions'[1].symbol = s
                 /\ tradeIdCounter' = tradeIdCounter + 1

C8_LossCooldown == [][C8_Settle /\ C8_Gate]_vars

\* a signal of a symbol that closed at a loss was rejected within its cooldown
C8_Witness ==
    /\ lastEvent = <<"evaluateSignal", "AAA", "MOMENTUM_BUY">>
    /\ "AAA" \in DOMAIN recentlyLostSymbols
    /\ Now < recentlyLostSymbols["AAA"]
    /\ activePositions = <<>>
    /\ Len(tradeHistory) >= 1
    /\ tradeHistory[Len(tradeHistory)].pnl < 0

\* C9: with MAX_OPEN_POSITIONS positions open, evaluateSignal rejects the
\* signal: no order, no position, balance and tradeIdCounter unchanged.
C9_MaxOpenPositions ==
    [][ ( /\ lastEvent'[1] \in {"evaluateSignal", "processAnalyzedPair"}
          /\ Len(activePositions) >= settings.MAX_OPEN_POSITIONS ) =>
        UNCHANGED <<activePositions, inflight, balance, tradeIdCounter, tradeHistory>> ]_vars

\* a buy signal of a symbol without position was rejected at the limit
C9_Witness ==
    /\ lastEvent = <<"evaluateSignal", "BBB", "MOMENTUM_BUY">>
    /\ Len(activePositions) = settings.MAX_OPEN_POSITIONS
    /\ ~HasActivePosition(BotState, "BBB")
    /\ inflight = {}
    /\ tradeIdCounter = Len(activePositions) + 1

\* C10: while the bot is paused no signal opens a position, whether it comes
\* through processAnalyzedPair, through evaluateSignal called by
\* handleBinanceMessage, or through checkConfirmationsOn5mClose.
C10_PausedOpensNothing ==
    [][ ( /\ ~isRunning
          /\ lastEvent'[1] \in {"evaluateSignal", "processAnalyzedPair",
                                "checkConfirmationsOn5mClose"} ) =>
        UNCHANGED <<activePositions, inflight, balance, tradeIdCounter>> ]_vars

\* C11: a 5m close for a symbol with a pending confirmation removes the
\* pending entry whatever the candle; a candle that does not close strictly
\* above its open opens no position; one that does lets the stored candidate
\* in as STRONG BUY when the portfolio gates pass.
C11_ConfirmationOn5mClose ==
    [][ \A s \in Symbols, k \in Candles5m :
            lastEvent' = <<"checkConfirmationsOn5mClose", s, k, TRUE>> =>
            /\ s \notin DOMAIN pendingConfirmation'
            /\ \A t \in DOMAIN pendingConfirmation' :
                   pendingConfirmation'[t] = pendingConfirmation[t]
            /\ IF k.c > k.o
               THEN ( /\ ~AtMaxOpenPositions(BotState)
                      /\ ~HasActivePosition(BotState, s)
                      /\ ~InCooldown(BotState, s) ) =>
                    /\ Len(activePositions') = Len(activePositions) + 1
                    /\ activePositions'[Len(activePositions')].symbol = s
                    /\ activePositions'[Len(activePositions')].entry_snapshot =
                           [pendingConfirmation[s].pair EXCEPT !.score = "STRONG BUY"]
               ELSE UNCHANGED <<activePositions, inflight, balance,
                                tradeIdCounter, tradeHistory>> ]_vars

\* a pending entry was dropped by a candle that closed at its open
C11_Witness ==
    /\ lastEvent = <<"checkConfirmationsOn5mClose", "AAA",
                     [o |-> 100 * PriceScale, c |-> 100 * PriceScale], TRUE>>
    /\ pendingConfirmation = EmptyMap
    /\ activePositions = <<>>
    /\ tradeIdCounter = 1

\* C12: a 5m close for a symbol without pending entry changes nothing and
\* evaluates nothing; every 5m close leaves the symbol without pending
\* entry, so that the closes which follow a resolution are of that kind.
C12_ResolutionIsIdempotent ==
    [][ \A s \in Symbols, k \in Candles5m :
            /\ lastEvent' = <<"checkConfirmationsOn5mClose", s, k, FALSE>> =>
                   UNCHANGED <<balance, activePositions, tradeHistory, tradeIdCounter,
                               recentlyLostSymbols, pendingConfirmation, inflight>>
            /\ \A had \in BOOLEAN :
                   lastEvent' = <<"checkConfirmationsOn5mClose", s, k, had>> =>
                       s \notin DOMAIN pendingConfirmation' ]_vars

\* the candidate was let in by an earlier confirmation, its position is closed
\* again, and a further confirming candle found no entry and opened nothing
\* although every gate was open
C12_Witness ==
    /\ lastEvent = <<"checkConfirmationsOn5mClose", "AAA",
                     [o |-> 100 * PriceScale, c |-> 101 * PriceScale], FALSE>>
    /\ isRunning
    /\ activePositions = <<>>
    /\ "AAA" \notin DOMAIN recentlyLostSymbols
    /\ Len(tradeHistory) = 1
    /\ tradeHistory[1].entry_snapshot.score = "STRONG BUY"
    /\ tradeIdCounter = 2

\* C13: without multi-timeframe validation processAnalyzedPair stores nothing
\* for a PENDING_CONFIRMATION signal and, when the portfolio gates pass, opens
\* a position in the same step with quantity
\* balance * POSITION_SIZE_PCT / 100 / price.
C13_OpensAtBaseSize ==
    [][ \A s \in Symbols :
            ( /\ lastEvent' = <<"processAnalyzedPair", s, "PENDING_CONFIRMATION">>
              /\ isRunning
              /\ ~settings.USE_MTF_VALIDATION ) =>
            /\ pendingConfirmation' = pendingConfirmation
            /\ ( /\ ~AtMaxOpenPositions(BotState)
                 /\ ~HasActivePosition(BotState, s)
                 /\ ~InCooldown(BotState, s) ) =>
               /\ Len(activePositions') = Len(activePositions) + 1
               /\ LET opened == activePositions'[Len(activePositions')]
                  IN  /\ opened.symbol = s
                      /\ opened.quantity =
                             Div(PctOf(balance, settings.POSITION_SIZE_PCT),
                                 opened.average_entry_price) ]_vars

\* C13 (amended): as above, but the percentage is
\* STRONG_BUY_POSITION_SIZE_PCT when dynamic position sizing is on (the signal
\* enters as STRONG BUY), POSITION_SIZE_PCT when it is off; and in REAL_LIVE
\* with an API client the same step places the order for that quantity, the
\* position itself following the fill.
C13_OpensAtResolvedSize ==
    [][ \A s \in Symbols :
            ( /\ lastEvent' = <<"processAnalyzedPair", s, "PENDING_CONFIRMATION">>
              /\ isRunning
              /\ ~settings.USE_MTF_VALIDATION ) =>
            /\ pendingConfirmation' = pendingConfirmation
            /\ ( /\ ~AtMaxOpenPositions(BotState)
                 /\ ~HasActivePosition(BotState, s)
                 /\ ~InCooldown(BotState, s) ) =>
               LET pct == IF settings.USE_DYNAMIC_POSITION_SIZING
                          THEN settings.STRONG_BUY_POSITION_SIZE_PCT
                          ELSE settings.POSITION_SIZE_PCT
                   SizedFor(trade) ==
                       /\ trade.symbol = s
                       /\ trade.entry_snapshot.score = "STRONG BUY"
                       /\ trade.quantity =
                              Div(PctOf(balance, pct), trade.average_entry_price)
               IN  IF UsesExchange
                   THEN /\ activePositions' = activePositions
                        /\ balance' = balance
                        /\ \E op \in inflight' \ inflight :
                               /\ op.kind = "open"
                               /\ SizedFor(op.trade)
                               /\ op.orderQty = formatQuantity(s, op.trade.quantity)
                   ELSE /\ Len(activePositions') = Len(activePositions) + 1
                        /\ SizedFor(activePositions'[Len(activePositions')])
                        /\ balance' = balance
                               - activePositions'[Len(activePositions')].entry_price
                                 * activePositions'[Len(activePositions')].quantity ]_vars

\* a Precision signal was let in at once, sized with the strong-buy percentage
C13_Witness ==
    /\ lastEvent = <<"processAnalyzedPair", "AAA", "PENDING_CONFIRMATION">>
    /\ settings.USE_DYNAMIC_POSITION_SIZING
    /\ ~settings.USE_MTF_VALIDATION
    /\ pendingConfirmation = EmptyMap
    /\ Len(activePositions) = 1
    /\ activePositions[1].quantity =
           Div(PctOf(settings.INITIAL_VIRTUAL_BALANCE,
                     settings.STRONG_BUY_POSITION_SIZE_PCT),
               activePositions[1].average_entry_price)
    /\ activePositions[1].quantity #
           Div(PctOf(settings.INITIAL_VIRTUAL_BALANCE, settings.POSITION_SIZE_PCT),
               activePositions[1].average_entry_price)
    /\ tradeIdCounter = 2

\* the stop of a signal under the settings' own (manual) parameters
ManualStop(pair) ==
    IF settings.USE_ATR_STOP_LOSS /\ pair.atr_15m # 0
    THEN pair.price - Times(pair.atr_15m, settings.ATR_MULTIPLIER)
    ELSE pair.price - PctOf(pair.price, settings.STOP_LOSS_PCT)

\* C14: evaluateSignal changes nothing (no position, no order) when the risk
\* per unit, price - stop_loss, is 0 or less, and opens when it is positive,
\* however small.
C14_RiskGuard ==
    [][ \A pair \in RiskPairs :
            ( /\ KlineMessage(pair)
              /\ pair.score \in ActionableScores
              /\ ~AtMaxOpenPositions(BotState)
              /\ ~HasActivePosition(BotState, pair.symbol)
              /\ ~InCooldown(BotState, pair.symbol) ) =>
            IF pair.price - ManualStop(pair) <= 0
            THEN UNCHANGED <<balance, activePositions, tradeHistory, tradeIdCounter,
                             recentlyLostSymbols, pendingConfirmation, inflight>>
            ELSE /\ tradeIdCounter' = tradeIdCounter + 1
                 /\ IF UsesExchange
                    THEN \E op \in inflight' \ inflight :
                             /\ op.kind = "open"
                             /\ op.trade.stop_loss = ManualStop(pair)
                    ELSE /\ Len(activePositions') = Len(activePositions) + 1
                         /\ activePositions'[Len(activePositions')].stop_loss
                                = ManualStop(pair) ]_vars

\* a buy signal whose stop is its price was dropped with every gate open
C14_Witness ==
    /\ lastEvent = <<"evaluateSignal", "AAA", "MOMENTUM_BUY">>
    /\ settings.STOP_LOSS_PCT = 0
    /\ settings.ATR_MULTIPLIER = 0
    /\ activePositions = <<>>
    /\ inflight = {}
    /\ tradeHistory = <<>>
    /\ tradeIdCounter = 1
    /\ balance = settings.INITIAL_VIRTUAL_BALANCE

\* the ledger entries a step appends
Appended == { tradeHistory'[j] : j \in (Len(tradeHistory) + 1)..Len(tradeHistory') }
\* the positions of a strategy (Ignition or not) that a tick finds open
OpenAtTick(ignition) ==
    { activePositions[i] : i \in { k \in 1..Len(activePositions) :
          /\ (activePositions[k].strategy_type = "IGNITION") = ignition
          /\ priceCache'[activePositions[k].symbol] # 0 } }
StaysOpen(p) == \E i \in 1..Len(activePositions') : activePositions'[i].id = p.id
After(p) == activePositions'[CHOOSE i \in 1..Len(activePositions') :
                                activePositions'[i].id = p.id]
IsExitCheck == lastEvent' = <<"checkAllPositions">> /\ isRunning

C18_IgnitionHasNoTarget ==
    [][ IsExitCheck =>
        \A p \in OpenAtTick(TRUE) :
            ~StaysOpen(p) =>
                \E c \in Appended :
                    /\ c.id = p.id
                    /\ priceCache'[p.symbol] <= c.stop_loss
                    /\ c.exit_price = c.stop_loss ]_vars

\* the profile the selection rule names for a signal
ClaimedProfile(pair) ==
    IF pair.strategy_type = "IGNITION" THEN "IGNITION"
    ELSE IF ~settings.USE_DYNAMIC_PROFILE_SELECTOR THEN "MANUAL"
    ELSE IF pair.adx_15m < settings.ADX_THRESHOLD_RANGE THEN "SCALPER"
    ELSE IF pair.atr_pct_15m > settings.ATR_PCT_THRESHOLD_VOLATILE
    THEN "VOLATILITY_HUNTER"
    ELSE "SNIPER"

\* C19 (revision part_001, which resolves trade parameters): the position a
\* signal opens carries the profile of the selection rule - IGNITION for an
\* Ignition signal; else MANUAL with the selector off; else SCALPER below the
\* ADX range threshold, else VOLATILITY_HUNTER above the ATR% threshold, else
\* SNIPER - with the parameters resolved for it, and keeps both unchanged
\* while it is open and when it is closed.
C19_ProfileSelection ==
    [][ rev = "part_001" =>
        /\ \A pair \in ProfilePairs :
               (KlineMessage(pair) /\ Len(activePositions') = Len(activePositions) + 1) =>
               LET opened == activePositions'[Len(activePositions')]
               IN  /\ opened.active_profile = ClaimedProfile(pair)
                   /\ opened.trade_params.name = ClaimedProfile(pair)
                   /\ opened.trade_params = _getTradeParameters(pair)
        /\ \A i \in 1..Len(activePositions) :
               LET p == activePositions[i]
               IN  /\ StaysOpen(p) =>
                          /\ After(p).trade_params = p.trade_params
                          /\ After(p).active_profile = p.active_profile
                   /\ \A c \in Appended :
                          c.id = p.id =>
                              /\ c.trade_params = p.trade_params
                              /\ c.active_profile = p.active_profile ]_vars

\* a signal in a ranging and volatile market got the SCALPER profile, and its
\* position kept it through a tick and the switching off of the selector
C19_Witness ==
    /\ rev = "part_001"
    /\ ~settings.USE_DYNAMIC_PROFILE_SELECTOR
    /\ Len(activePositions) = 1
    /\ LET p == activePositions[1]
       IN  /\ p.entry_snapshot.adx_15m < settings.ADX_THRESHOLD_RANGE
           /\ p.entry_snapshot.atr_pct_15m > settings.ATR_PCT_THRESHOLD_VOLATILE
           /\ p.active_profile = "SCALPER"
           /\ p.trade_params.name = "SCALPER"
           /\ p.highest_price_since_entry = 101 * PriceScale

\* C20: the stop_loss of an opened position is price - atr * atr_multiplier
\* when the resolved parameters ask for an ATR stop and the signal has an ATR
\* value, price * (1 - stop_loss_pct / 100) otherwise, and its take_profit is
\* price + (price - stop_loss) * risk_reward_ratio, all three taken from the
\* trade parameters resolved for the signal.
C20_StopAndTarget ==
    [][ \A pair \in ProfilePairs :
            (KlineMessage(pair) /\ Len(activePositions') = Len(activePositions) + 1) =>
            LET opened == activePositions'[Len(activePositions')]
                params == _getTradeParameters(pair)
                stop == IF params.useAtrSl /\ pair.atr_15m # 0
                        THEN pair.price - Times(pair.atr_15m, params.atrMultiplier)
                        ELSE pair.price - PctOf(pair.price, params.stopLossPct)
            IN  /\ opened.stop_loss = stop
                /\ opened.take_profit =
                       pair.price + Times(pair.price - stop, params.riskRewardRatio) ]_vars

\* C22: the exchange order endpoint is called at most once per open decision
\* and at most once per close decision of a position, and never again after
\* a failure: a step places at most one BUY, under the id it issues in that
\* step, and at most one SELL per position, which it takes out of
\* activePositions; the step in which an order is answered, filled or
\* failed, places no order and ends that call; no id has two BUYs or two
\* SELLs in flight, and none has an order in flight once it is settled.
C22_State ==
    /\ \A o1, o2 \in inflight :
           (o1.kind = o2.kind /\ o1.trade.id = o2.trade.id) => o1 = o2
    /\ \A op \in InflightOf("open") :
           /\ op.trade.id \notin IdsOf(activePositions) \cup IdsOf(tradeHistory)
           /\ op.trade.id < tradeIdCounter
    /\ \A op \in InflightOf("close") :
           op.trade.id \notin IdsOf(activePositions) \cup IdsOf(tradeHistory)

C22_Step ==
    LET placed == inflight' \ inflight
        buys == { op \in placed : op.kind = "open" }
        sells == { op \in placed : op.kind = "close" }
    IN  /\ Cardinality(buys) <= 1
        /\ \A op \in buys :
               op.trade.id = tradeIdCounter /\ tradeIdCounter' = tradeIdCounter + 1
        /\ \A op \in sells :
               /\ op.trade.id \in IdsOf(activePositions)
               /\ op.trade.id \notin IdsOf(activePositions')
               /\ \A other \in sells : other.trade.id = op.trade.id => other = op
        /\ lastEvent'[1] \in {"orderFilled", "orderFailed"} =>
               /\ placed = {}
               /\ Cardinality(inflight') = Cardinality(inflight) - 1

C22_OneOrderPerDecision == []C22_State /\ [][C22_Step]_vars

\* a BUY and a SELL have both failed and nothing is in flight: the failed
\* open left no position, the failed close one ledger entry
C22_Witness ==
    /\ lastEvent = <<"orderFailed", "close">>
    /\ inflight = {}
    /\ activePositions = <<>>
    /\ Len(tradeHistory) = 1
    /\ tradeIdCounter = MaxTradeId + 1

\* C23: manualClose with a trade id that is not in activePositions - never
\* opened, already closed, or being closed on the exchange - returns the
\* failure result and changes no state.
C23_UnknownIdFails ==
    [][ \A id \in TradeIds :
            (CloseTrade(id) /\ id \notin IdsOf(activePositions)) =>
            /\ lastEvent' = <<"manualClose", "not_found">>
            /\ UNCHANGED <<rev, analyzer, klineData, fetches, feed, settings, balance, activePositions, tradeHistory,
                           tradeIdCounter, isRunning, tradingMode, recentlyLostSymbols,
                           pendingConfirmation, priceCache, apiClient, inflight, clock>> ]_vars

\* the id of a closed trade was asked for while another position is open
C23_Witness ==
    /\ lastEvent = <<"manualClose", "not_found">>
    /\ Len(tradeHistory) = 1
    /\ Len(activePositions) = 1
    /\ inflight = {}

\* C24: every position appended to activePositions has quantity > 0 and
\* stop_loss < entry_price < take_profit when it is appended, whatever the
\* balance (zero included) and whatever the price the exchange filled at.
C24_WellFormedAtCreation ==
    [][ Len(activePositions') = Len(activePositions) + 1 =>
            LET created == activePositions'[Len(activePositions')]
            IN  /\ created.quantity > 0
                /\ created.stop_loss < created.entry_price
                /\ created.entry_price < created.take_profit ]_vars

\* the ids of the trades an order is in flight for
IdsInFlight == { op.trade.id : op \in inflight }

\* C25: position ids are unique and monotonic: no two trades of
\* activePositions and tradeHistory together share an id; no engine
\* operation decreases tradeIdCounter; and the id a step issues is greater
\* than every id issued before it, those of the trades an order is in
\* flight for included.
C25_State ==
    /\ \A i, j \in 1..Len(activePositions) :
           activePositions[i].id = activePositions[j].id => i = j
    /\ \A i, j \in 1..Len(tradeHistory) :
           tradeHistory[i].id = tradeHistory[j].id => i = j
    /\ IdsOf(activePositions) \cap IdsOf(tradeHistory) = {}

C25_Step ==
    /\ lastEvent'[1] # "clear-data" => tradeIdCounter' >= tradeIdCounter
    /\ \A id \in (IdsOf(activePositions') \cup IdsInFlight')
                  \ (IdsOf(activePositions) \cup IdsInFlight) :
           \A issued \in IdsOf(activePositions) \cup IdsOf(tradeHistory) \cup IdsInFlight :
               id > issued

C25_UniqueMonotonicIds == []C25_State /\ [][C25_Step]_vars

\* C26: while closed 5m candles of a symbol keep being observed, a pending
\* confirmation of that symbol is eventually removed.
C26_PendingIsResolved ==
    \A s \in Symbols :
        (s \in DOMAIN pendingConfirmation) ~> (s \notin DOMAIN pendingConfirmation)

\* the trades a step creates: appended to activePositions, or handed to the
\* exchange with a BUY order
Created ==
    { activePositions'[i] : i \in (Len(activePositions) + 1)..Len(activePositions') }
    \cup { op.trade : op \in { o \in inflight' \ inflight : o.kind = "open" } }

Returned(method) == analyzer.call = method /\ analyzer.returned
SharedOf(a) == evaluateSharedConditions(a.pair, NoConditions)
IgnitionOf(a) == evaluateIgnitionStrategy(a.pair, a.klines1m, SharedOf(a))
MomentumOf(a) == evaluateMomentumStrategy(a.pair, a.analysis5m, SharedOf(a))
PrecisionOf(a) ==
    evaluatePrecisionStrategy(a.pair, a.analysis1m, a.analysis5m, a.klines1m, SharedOf(a))

\* C21: for every combination of evaluator outcomes the final score_value is
\* the maximum of the three evaluators' score values, in the order Ignition
\* (100) > Momentum (90) > Precision confirmed (80) > Precision watch (70) >
\* none, and score, strategy_type and condition checklist are those of the
\* evaluator that wins.
C21_PriorityResolution ==
    Returned("evaluateStrategy") =>
        LET a == analyzer.args
            out == analyzer.result
            ignition == IgnitionOf(a)
            momentum == MomentumOf(a)
            precision == PrecisionOf(a)
            winner == IF ignition.score = "IGNITION_DETECTED" THEN ignition
                      ELSE IF momentum.score = "MOMENTUM_BUY" THEN momentum
                      ELSE precision
        IN  /\ out.score_value =
                   Max(ignition.score_value, Max(momentum.score_value, precision.score_value))
            /\ out.score_value =
                   IF ignition.score = "IGNITION_DETECTED" THEN 100
                   ELSE IF momentum.score = "MOMENTUM_BUY" THEN 90
                   ELSE IF precision.score = "PENDING_CONFIRMATION" THEN 80
                   ELSE IF precision.score = "COMPRESSION" THEN 70
                   ELSE 50
            /\ out.score = winner.score
            /\ out.strategy_type = winner.strategy_type
            /\ out.conditions = winner.conditions

\* all three evaluators qualified in one cycle and Ignition won
C21_Witness ==
    /\ Returned("evaluateStrategy")
    /\ MomentumOf(analyzer.args).score = "MOMENTUM_BUY"
    /\ PrecisionOf(analyzer.args).score = "PENDING_CONFIRMATION"
    /\ analyzer.result.score = "IGNITION_DETECTED"
    /\ analyzer.result.score_value = 100
    /\ analyzer.result.strategy_type = "IGNITION"

\* C29: an empty 5m aggregate (a window of fewer than 21 candles) is no
\* opinion: whenever some 5m aggregate lets Momentum or Precision qualify on
\* the other aggregates, they qualify with the empty aggregate too, and the
\* conditions read from it do not count as failed.
C29_EmptyAggregateIsNoOpinion ==
    (Returned("evaluateStrategy") /\ analyzer.args.analysis5m = EmptyMap) =>
        LET a == analyzer.args
        IN  \A opinion \in Aggregates5m \ {EmptyMap} :
                LET b == [a EXCEPT !.analysis5m = opinion]
                IN  /\ MomentumOf(b).score = "MOMENTUM_BUY" =>
                           /\ MomentumOf(a).score = "MOMENTUM_BUY"
                           /\ Truthy(MomentumOf(a).conditions, "momentum_confirmation")
                    /\ PrecisionOf(b).score = "PENDING_CONFIRMATION" =>
                           /\ PrecisionOf(a).score = "PENDING_CONFIRMATION"
                           /\ Truthy(PrecisionOf(a).conditions, "cvd_5m_trending_up")

\* the RSI filters as the settings and the aggregates have them
SafetyFails(a) ==
    settings.USE_RSI_SAFETY_FILTER /\ a.pair.rsi_1h >= settings.RSI_OVERBOUGHT_THRESHOLD
MtfFails(a) ==
    settings.USE_RSI_MTF_FILTER /\ a.pair.rsi_15m >= settings.RSI_15M_OVERBOUGHT_THRESHOLD

\* C30: the RSI safety filters gate only Precision and Momentum.  A filter
\* that is switched off never blocks them: their results do not depend on
\* its RSI value.  A filter that is on and fails keeps them from their
\* actionable scores, PENDING_CONFIRMATION and MOMENTUM_BUY.  And Ignition is
\* detected whenever it is enabled, the 4h trend holds, the 1m price change
\* is at or above the spike threshold and the 1m volume at or above the
\* configured multiple of its average, whatever the RSI filters say.
C30_RsiFiltersGate ==
    Returned("evaluateStrategy") =>
        LET a == analyzer.args
            out == analyzer.result
        IN  /\ ~settings.USE_RSI_SAFETY_FILTER =>
                   \A rsi \in {74, 75} :
                       LET b == [a EXCEPT !.pair.rsi_1h = rsi]
                       IN  /\ MomentumOf(b).score = MomentumOf(a).score
                           /\ PrecisionOf(b).score = PrecisionOf(a).score
            /\ ~settings.USE_RSI_MTF_FILTER =>
                   \A rsi \in {69, 70} :
                       LET b == [a EXCEPT !.pair.rsi_15m = rsi]
                       IN  /\ MomentumOf(b).score = MomentumOf(a).score
                           /\ PrecisionOf(b).score = PrecisionOf(a).score
            /\ (SafetyFails(a) \/ MtfFails(a)) =>
                   /\ MomentumOf(a).score # "MOMENTUM_BUY"
                   /\ PrecisionOf(a).score # "PENDING_CONFIRMATION"
                   /\ out.score \notin {"MOMENTUM_BUY", "PENDING_CONFIRMATION"}
            /\ ( /\ settings.USE_IGNITION_STRATEGY
                 /\ a.pair.price_above_ema50_4h
                 /\ (a.klines1m.last.close - a.klines1m.prev.close) * 100 * PctScale
                        >= settings.IGNITION_PRICE_SPIKE_PCT * a.klines1m.prev.close
                 /\ a.klines1m.last.volume
                        >= settings.IGNITION_VOLUME_MULTIPLE * a.analysis1m.volume_avg_1m ) =>
                   /\ out.score = "IGNITION_DETECTED"
                   /\ out.strategy_type = "IGNITION"

\* both RSI filters are on and fail, price change and volume are exactly at
\* their thresholds, and Ignition was detected
C30_Witness ==
    /\ Returned("evaluateStrategy")
    /\ SafetyFails(analyzer.args) /\ MtfFails(analyzer.args)
    /\ analyzer.args.klines1m.last.close = 105 * PriceScale
    /\ analyzer.args.klines1m.last.volume = 1000
    /\ analyzer.args.pair.momentum_impulse_15m
    /\ analyzer.args.pair.is_in_squeeze_15m
    /\ analyzer.result.score = "IGNITION_DETECTED"

\* the 25th-percentile width of a window: the width that has at most a
\* quarter of the window's widths (rounded down) strictly below it and more
\* than that at or below it
Percentile25(window) ==
    CHOOSE t \in { window[i] : i \in 1..Len(window) } :
        /\ Cardinality({ i \in 1..Len(window) : window[i] < t }) <= Len(window) \div 4
        /\ Cardinality({ i \in 1..Len(window) : window[i] <= t }) > Len(window) \div 4

WindowOf(a) ==
    IF rev = "backend" THEN a.bbWidths ELSE SubSeq(a.bbWidths, 1, Len(a.bbWidths) - 1)

\* C28: analyzeTimeframe('15m') returns is_in_squeeze_15m true exactly when
\* the current Bollinger width is at or below the 25th-percentile width of
\* the window; a current width equal to that threshold is flagged.
C28_SqueezeAtOrBelowPercentile ==
    Returned("analyzeTimeframe") =>
        LET widths == analyzer.args.bbWidths
        IN  /\ ~analyzer.result.threw
            /\ analyzer.result.is_in_squeeze_15m
                   = (widths[Len(widths)] <= Percentile25(WindowOf(analyzer.args)))

\* the positions that are open before and after a step, as pairs of indices
Kept ==
    { <<i, j>> \in (1..Len(activePositions)) \X (1..Len(activePositions')) :
          activePositions[i].id = activePositions'[j].id }

C31_Step ==
    /\ \A ij \in Kept :
           activePositions'[ij[2]].highest_price_since_entry
               >= activePositions[ij[1]].highest_price_since_entry
    /\ (lastEvent' = <<"checkAllPositions">> /\ isRunning) =>
           \A ij \in Kept :
               LET before == activePositions[ij[1]]
                   after == activePositions'[ij[2]]
                   price == priceCache'[after.symbol]
               IN  price # 0 =>
                       /\ after.highest_price_since_entry
                              = Max(before.highest_price_since_entry, price)
                       /\ after.highest_price_since_entry >= price
                       /\ after.highest_price_since_entry >= after.entry_price

\* C31: highest_price_since_entry never decreases; an exit check that sees a
\* cached price leaves it at the maximum of what it was and that price, so
\* at least that price, and at least the entry price.
C31_HighestPriceSinceEntry == [][C31_Step]_vars

\* the candles of a key whose handleNewKline has run to its end
Handled(key) ==
    { kline \in (HistoryLimit + 1)..feed[key] :
          [key |-> key, kline |-> kline] \notin fetches }

InWindow(key) == { klineData[key][i] : i \in 1..Len(klineData[key]) }

\* C32: the window of a key holds at most 201 candles, in arrival order, and
\* every candle whose handleNewKline has finished is in it: fewer candles
\* are delivered than the window holds, so none of them is evicted.  This
\* also holds when candles of the key arrive while its first history fetch
\* is pending.
C32_SlidingWindow ==
    \A key \in DOMAIN klineData :
        /\ Len(klineData[key]) <= WindowCapacity
        /\ \A i, j \in 1..Len(klineData[key]) :
               i < j => klineData[key][i] < klineData[key][j]
        /\ Handled(key) \subseteq InWindow(key)

RECURSIVE DebitedCost(_)
DebitedCost(positions) ==
    IF positions = <<>> THEN 0
    ELSE Head(positions).entry_price * Head(positions).quantity
             + DebitedCost(Tail(positions))

RECURSIVE RecordedPnl(_)
RecordedPnl(trades) ==
    IF trades = <<>> THEN 0 ELSE Head(trades).pnl + RecordedPnl(Tail(trades))

\* C34: with no open or close suspended on the exchange, balance plus the
\* cost debited for the open positions equals the initial balance plus the
\* pnl recorded in tradeHistory, in VIRTUAL and in REAL_LIVE mode with fills
\* that differ from the signal.
C34_BalanceRoundTrip ==
    inflight = {} =>
        balance + DebitedCost(activePositions)
            = settings.INITIAL_VIRTUAL_BALANCE + RecordedPnl(tradeHistory)

\* C35: activePositions never holds more than MAX_OPEN_POSITIONS positions,
\* also when signals of other symbols are evaluated while opens are
\* suspended on the exchange order.
C35_NeverAboveMaxOpenPositions ==
    Len(activePositions) <= settings.MAX_OPEN_POSITIONS

\* a step in which a signal opens a position of a symbol: the BUY order is
\* sent or, without exchange, the position is recorded
OpensNew(symbol) ==
    \/ \E op \in inflight' \ inflight : op.kind = "open" /\ op.trade.symbol = symbol
    \/ /\ tradeIdCounter' > tradeIdCounter
       /\ \E j \in 1..Len(activePositions') :
              /\ activePositions'[j].symbol = symbol
              /\ activePositions'[j].id = tradeIdCounter

\* a position of the symbol has left activePositions with a loss and its
\* cooldown has not run out: its close is suspended on the SELL order, or
\* the expiry written at its end is ahead
LossPending(symbol) ==
    \/ \E op \in inflight :
           op.kind = "close" /\ op.trade.symbol = symbol /\ op.trade.pnl < 0
    \/ symbol \in DOMAIN recentlyLostSymbols /\ Now < recentlyLostSymbols[symbol]

\* C36: from the removal of a position that closes at a loss until the
\* expiry of its cooldown no position of that symbol is opened, also not by
\* a signal evaluated while the close is suspended on the SELL order.
C36_LossBlocksReentry ==
    [][ \A symbol \in Symbols : LossPending(symbol) => ~OpensNew(symbol) ]_vars

\* C37: a pass of checkAllPositions closes every position that is open at
\* its start and whose cached price is at or below its stop_loss or at or
\* above its take_profit (other than Ignition), also when a position before
\* it in activePositions is closed by the same pass.
C37_PassChecksEveryPosition ==
    [][ (lastEvent' = <<"checkAllPositions">> /\ isRunning) =>
            \A i \in 1..Len(activePositions) :
                LET position == activePositions[i]
                    price == priceCache'[position.symbol]
                IN  ( /\ price # 0
                      /\ position.strategy_type # "IGNITION"
                      /\ price <= position.stop_loss \/ price >= position.take_profit ) =>
                    \A j \in 1..Len(activePositions') :
                        activePositions'[j].id # position.id ]_vars

\* what closePosition credits for a closed trade
Proceeds(trade) ==
    IF rev = "part_001" THEN trade.total_cost_usd + trade.pnl
    ELSE trade.entry_price * trade.quantity + trade.pnl

C38_Settles ==
    \A op \in InflightOf("close") :
        op \notin inflight' =>
            /\ tradeHistory' = Append(tradeHistory, op.trade)
            /\ balance' = balance + Proceeds(op.trade)

\* C38: if the exchange answers every SELL order, a position that
\* closePosition has removed from activePositions is eventually in
\* tradeHistory, and the step that puts it there credits its proceeds to
\* balance: no position stays in neither collection for ever.
C38_CloseEventuallySettles ==
    /\ \A id \in TradeIds :
           (\E op \in InflightOf("close") : op.trade.id = id)
               ~> (id \in IdsOf(tradeHistory))
    /\ [][C38_Settles]_vars

\* a close that was suspended on the exchange has been credited and recorded
C38_Witness ==
    /\ lastEvent = <<"orderFilled", "close">>
    /\ inflight = {}
    /\ activePositions = <<>>
    /\ Len(tradeHistory) = 1
    /\ balance = settings.INITIAL_VIRTUAL_BALANCE
                     - tradeHistory[1].entry_price * tradeHistory[1].quantity
                     + Proceeds(tradeHistory[1])

C39_Step ==
    ~isRunning =>
        /\ lastEvent' = <<"checkAllPositions">> =>
               UNCHANGED <<activePositions, balance, tradeHistory, inflight,
                           recentlyLostSymbols>>
        /\ IdsOf(activePositions) \ IdsOf(activePositions') # {} =>
               lastEvent' = <<"manualClose", "success">>

\* C39: while the bot is paused a ticker message closes no position and
\* changes no field of a position, nor balance or tradeHistory, whatever the
\* cached price; a position leaves activePositions only through manualClose.
C39_PausedTicksChangeNothing == [][C39_Step]_vars

\* a ticker message found the bot paused and a position at its stop, and
\* left it alone
C39_Witness ==
    /\ ~isRunning
    /\ lastEvent = <<"checkAllPositions">>
    /\ Len(activePositions) = 1
    /\ priceCache[activePositions[1].symbol] <= activePositions[1].stop_loss
    /\ tradeHistory = <<>>

\* C40: a Precision result with score PENDING_CONFIRMATION that the kline
\* branch of handleBinanceMessage produces is stored in pendingConfirmation
\* when multi-timeframe validation is on and evaluated as STRONG BUY when it
\* is off (a running bot with room for the symbol opens a position); it is
\* never dropped.
C40_ConfirmedPrecisionIsNotDropped ==
    [][ \A symbol \in Symbols :
            lastEvent' = <<"evaluateSignal", symbol, "PENDING_CONFIRMATION">> =>
                IF settings.USE_MTF_VALIDATION
                THEN isRunning =>
                         /\ symbol \in DOMAIN pendingConfirmation'
                         /\ pendingConfirmation'[symbol].pair.score = "PENDING_CONFIRMATION"
                ELSE ( /\ isRunning
                       /\ ~AtMaxOpenPositions(BotState)
                       /\ ~HasActivePosition(BotState, symbol)
                       /\ ~InCooldown(BotState, symbol) ) =>
                         tradeIdCounter' = tradeIdCounter + 1 ]_vars

====
